---- MODULE Spec2Model ----
(***************************************************************************)
(* A model of the BEC scorer (bec_scorer.py) and its three signal engines: *)
(* the trust graph (trust_graph.py), the temporal pattern-of-life analyzer *)
(* (temporal_analyzer.py) and the stylometry engine (stylometry_engine.py).*)
(*                                                                         *)
(* Numbers.  Python floats are modelled in fixed point: a score s is the   *)
(* integer s * ONE (ONE = 10000); the fused score keeps the full product   *)
(* precision and is an integer multiple of 1/(ONE*ONE).  Timestamps are    *)
(* minutes since a Monday 00:00; timedelta.days is a floor division by     *)
(* 1440.  log1p and exp are tabulated to four decimals.                    *)
(***************************************************************************)
EXTENDS Integers, Sequences, FiniteSets, TLC

VARIABLES
    trust_graph,        \* BECScorer.trust_graph: [nodes, edges, executives]
    temporal_analyzer,  \* BECScorer.temporal_analyzer: [profiles, email_threads]
    stylometry_engine,  \* BECScorer.stylometry_engine: [profiles, sample_texts]
    is_trained,         \* BECScorer.is_trained
    now,                \* the wall clock read by datetime.now()
    result,             \* what the last analyze_email call returned or raised
    analyzed,           \* history: the email that call was given
    last_call,          \* history: the operation that made the last step
    n_finalize,         \* history: finalize_training calls completed
    n_train,            \* history: train_on_email calls made through the API
    trained_emails,     \* history: the emails train_on_email was called with
    calls               \* per caller: the analyze_email call it is running

vars == << trust_graph, temporal_analyzer, stylometry_engine, is_trained, now,
           result, analyzed, last_call, n_finalize, n_train, trained_emails,
           calls >>

engine == << trust_graph, temporal_analyzer, stylometry_engine >>

-----------------------------------------------------------------------------
(* Bounds of the model *)

\* train_on_email calls explored on top of the initial corpus
MaxTrain == 1

\* add_executive calls explored
MaxExec == 1

-----------------------------------------------------------------------------
(* Fixed point *)

ONE == 100 * 100

Min2(a, b) == IF a <= b THEN a ELSE b

Max2(a, b) == IF a >= b THEN a ELSE b

Abs(a) == IF a < 0 THEN 0 - a ELSE a

\* Python's floor division (TLC's \div floors as well; kept explicit)
FloorDiv(a, b) == a \div b

RECURSIVE SumSeq(_)
SumSeq(s) == IF s = << >> THEN 0 ELSE Head(s) + SumSeq(Tail(s))

RECURSIVE SetToSeq(_)
SetToSeq(S) ==
    IF S = {} THEN << >>
    ELSE LET x == CHOOSE y \in S : TRUE IN << x >> \o SetToSeq(S \ {x})

Reverse(seq) == [i \in DOMAIN seq |-> seq[Len(seq) + 1 - i]]

MinOfSeq(s) == CHOOSE x \in {s[i] : i \in DOMAIN s} : \A j \in DOMAIN s : x <= s[j]

MaxOfSeq(s) == CHOOSE x \in {s[i] : i \in DOMAIN s} : \A j \in DOMAIN s : x >= s[j]

\* math.log1p(n) * ONE for n >= 1; past the table 0.3*log1p(n) exceeds 1.0 and
\* the strength is clamped, so the last entry stands for every larger n
Log1pTable ==
    << 6931, 10986, 13863, 16094, 17918, 19459, 20794, 21972, 23026, 23979, 24849, 25649, 26391, 27081,
       27726, 28332, 28904, 29444, 29957, 30445, 30910, 31355, 31781, 32189, 32581, 32958, 33322, 33673 >>

log1p(n) ==
    IF n <= 0 THEN 0
    ELSE IF n > Len(Log1pTable) THEN Log1pTable[Len(Log1pTable)]
    ELSE Log1pTable[n]

\* math.exp(-d / 90) * ONE for d = 0, 1, 2, ... days (entry d + 1)
ExpTable ==
    <<
    10000, 9890, 9780, 9672, 9565, 9460, 9355, 9252, 9149, 9048, 8948, 8850, 8752, 8655, 8559, 8465,
    8371, 8279, 8187, 8097, 8007, 7919, 7831, 7745, 7659, 7575, 7491, 7408, 7326, 7245, 7165, 7086,
    7008, 6930, 6854, 6778, 6703, 6629, 6556, 6483, 6412, 6341, 6271, 6202, 6133, 6065, 5998, 5932,
    5866, 5802, 5738, 5674, 5611, 5549, 5488, 5427, 5368, 5308, 5250, 5192, 5134, 5077, 5021, 4966,
    4911, 4857, 4803, 4750, 4697, 4646, 4594, 4543, 4493, 4444, 4395, 4346, 4298, 4250, 4204, 4157,
    4111, 4066, 4021, 3976, 3932, 3889, 3846, 3803, 3761, 3720, 3679, 3638, 3598, 3558, 3519, 3480,
    3442, 3404, 3366, 3329, 3292, 3256, 3220, 3184, 3149, 3114, 3080, 3046, 3012, 2979, 2946, 2913,
    2881, 2849, 2818, 2787, 2756, 2725, 2695, 2665, 2636, 2607, 2578, 2550, 2521, 2494, 2466, 2439,
    2412, 2385, 2359, 2333, 2307, 2281, 2256, 2231, 2207, 2182, 2158, 2134, 2111, 2087, 2064, 2042,
    2019, 1997, 1975, 1953, 1931, 1910, 1889, 1868, 1847, 1827, 1807, 1787, 1767, 1747, 1728, 1709,
    1690, 1671, 1653, 1635, 1617, 1599, 1581, 1564, 1546, 1529, 1512, 1496, 1479, 1463, 1447, 1431,
    1415, 1399, 1384, 1368, 1353, 1338, 1324, 1309, 1295, 1280, 1266, 1252, 1238, 1225, 1211, 1198,
    1184, 1171, 1158, 1146, 1133, 1120, 1108, 1096, 1084, 1072, 1060, 1048, 1037, 1025, 1014, 1003,
    992, 981, 970, 959, 948, 938, 928, 917, 907, 897, 887, 877, 868, 858, 849, 839,
    830, 821, 812, 803, 794, 785, 776, 768, 759, 751, 743, 735, 726, 718, 710, 703,
    695, 687, 680, 672, 665, 657, 650, 643, 636, 629, 622, 615, 608, 601, 595, 588,
    582, 575, 569, 563, 556, 550, 544, 538, 532, 526, 520, 515, 509, 503, 498, 492,
    487, 482, 476, 471, 466, 461, 456, 450, 446, 441, 436, 431, 426, 421, 417, 412,
    408, 403, 399, 394, 390, 386, 381, 377, 373, 369, 365, 361, 357, 353, 349, 345,
    341, 337, 334, 330, 326, 323, 319, 316, 312, 309, 305, 302, 299, 295, 292, 289,
    286, 282, 279, 276, 273, 270, 267, 264, 261, 258, 256, 253, 250, 247, 245, 242,
    239, 236, 234, 231, 229, 226, 224, 221, 219, 216, 214, 212, 209, 207, 205, 202,
    200, 198, 196, 194, 191, 189, 187, 185, 183, 181, 179, 177, 175, 173, 171, 169,
    168, 166, 164, 162, 160, 159, 157, 155, 153, 152, 150, 148, 147, 145, 143, 142,
    140, 139, 137, 136, 134, 133, 131, 130, 128, 127, 126, 124, 123, 121, 120, 119,
    117, 116, 115, 114, 112, 111, 110, 109, 107, 106, 105, 104, 103, 102, 101, 99,
    98, 97, 96, 95, 94, 93, 92, 91, 90, 89, 88, 87, 86, 85, 84, 83,
    82, 81, 80, 80, 79, 78, 77, 76, 75, 74, 74, 73, 72, 71, 70, 70,
    69, 68, 67, 67, 66, 65, 64, 64, 63, 62, 62, 61, 60, 60, 59, 58,
    58, 57, 56, 56, 55, 55, 54, 53, 53, 52, 52, 51, 50, 50, 49, 49,
    48, 48, 47, 47, 46, 46, 45, 45, 44, 44, 43, 43, 42, 42, 41, 41,
    40, 40, 40, 39, 39, 38, 38, 37, 37, 37, 36, 36, 35, 35, 35, 34,
    34, 33, 33, 33, 32, 32, 32, 31, 31, 31, 30, 30, 30, 29, 29, 29,
    28, 28, 28, 27, 27, 27, 26, 26, 26, 26, 25, 25, 25, 25, 24, 24,
    24, 23, 23, 23, 23, 22, 22, 22, 22, 21, 21, 21, 21, 21, 20, 20,
    20, 20, 19, 19, 19, 19, 19, 18, 18, 18, 18, 18, 17, 17, 17, 17,
    17, 16, 16, 16, 16, 16, 16, 15, 15, 15, 15, 15, 15, 14, 14, 14,
    14, 14, 14, 13, 13, 13, 13, 13, 13, 13, 12, 12, 12, 12, 12, 12,
    12, 12, 11, 11, 11, 11, 11, 11, 11, 11, 10, 10, 10, 10, 10, 10,
    10, 10, 10, 9, 9, 9, 9, 9, 9, 9, 9, 9, 9, 8, 8, 8,
    8, 8, 8, 8, 8, 8, 8, 8, 7, 7, 7, 7, 7, 7, 7, 7,
    7, 7, 7, 7, 7, 6, 6, 6, 6, 6, 6, 6, 6, 6, 6, 6,
    6, 6, 6, 6, 5, 5, 5, 5, 5, 5, 5, 5, 5, 5, 5, 5,
    5, 5, 5, 5, 5, 5, 4, 4, 4, 4, 4, 4, 4, 4, 4, 4,
    4, 4, 4, 4, 4, 4, 4, 4, 4, 4, 4, 4, 4, 3, 3, 3,
    3 >>

\* math.exp(-days / 90): days < 0 (a timestamp ahead of the clock) gives a
\* value above 1.0, tabulated by reflection 1 / exp(-|days| / 90)
exp_neg(days) ==
    IF days >= Len(ExpTable) THEN 0
    ELSE IF days >= 0 THEN ExpTable[days + 1]
    ELSE IF 0 - days >= Len(ExpTable) THEN ONE * 3000
    ELSE (ONE * ONE) \div ExpTable[(0 - days) + 1]

-----------------------------------------------------------------------------
(* Addresses.  TLA+ strings are atomic, so str.lower() and the domain test *)
(* of is_internal are given by tables over the addresses of the model.     *)

\* BECScorer("cyrenity.com") of web_app.py
org_domain == "cyrenity.com"

\* the addresses of demo_training.py, one of them also in another case, and a
\* lookalike of the CFO's that no training email names
Addresses ==
    { "cfo@cyrenity.com", "bbrown@cyrenity.com", "accounting@cyrenity.com",
      "vendor1@trustedvendor.com", "Vendor1@TrustedVendor.com",
      "partner@lawfirm.com", "cfo@cyrenlty.com" }

\* str.lower()
lower(email) ==
    IF email = "Vendor1@TrustedVendor.com" THEN "vendor1@trustedvendor.com" ELSE email

\* the part of an address after its "@"
DomainOf(email) ==
    CASE email \in { "cfo@cyrenity.com", "bbrown@cyrenity.com",
                     "accounting@cyrenity.com" } -> "cyrenity.com"
      [] email = "vendor1@trustedvendor.com" -> "trustedvendor.com"
      [] email = "Vendor1@TrustedVendor.com" -> "TrustedVendor.com"
      [] email = "partner@lawfirm.com" -> "lawfirm.com"
      [] email = "cfo@cyrenlty.com" -> "cyrenlty.com"

\* datetime: minutes since a Monday 00:00
MinutesPerDay == 24 * 60

hour_of(ts) == (ts \div 60) % 24

weekday_of(ts) == (ts \div MinutesPerDay) % 7

\* (a - b).days
days_between(a, b) == FloorDiv(a - b, MinutesPerDay)

\* None where a number or a datetime is expected (no timestamp is negative)
None == -1

\* None where a string is expected
NoneStr == "None"

-----------------------------------------------------------------------------
(* trust_graph.py *)

\* TrustGraph.__init__ (its argument is org_domain)
TrustGraphInit == [ nodes |-> << >>, edges |-> << >>, executives |-> << >> ]

\* EmailInteraction built by train_on_email
EmailInteraction(email) ==
    [ from_addr |-> email.from_addr,
      to_addr |-> email.to_addr,
      timestamp |-> email.timestamp,
      subject |-> email.subject,
      has_payment_request |-> email.has_payment_request,
      amount_requested |-> email.amount_requested ]

is_internal(email) == DomainOf(lower(email)) = org_domain

InExecutives(tg, email) == \E i \in DOMAIN tg.executives : tg.executives[i] = email

\* NodeProfile(address, is_internal, is_executive) with the dataclass defaults
NodeProfile(tg, email) ==
    [ address |-> email,
      first_seen |-> None,
      last_seen |-> None,
      interaction_count |-> 0,
      incoming_count |-> 0,
      outgoing_count |-> 0,
      trust_score |-> ONE \div 2,
      is_internal |-> is_internal(email),
      is_executive |-> InExecutives(tg, email),
      payment_requests_made |-> 0,
      payment_requests_fulfilled |-> 0 ]

add_executive(tg, email) ==
    LET e == lower(email)
        ex == Append(tg.executives, e)
    IN  IF e \in DOMAIN tg.nodes
        THEN [tg EXCEPT !.executives = ex, !.nodes[e].is_executive = TRUE]
        ELSE [tg EXCEPT !.executives = ex]

\* the graph after get_or_create_node(email); the node is then tg.nodes[lower(email)]
get_or_create_node(tg, email) ==
    LET e == lower(email)
    IN  IF e \notin DOMAIN tg.nodes
        THEN [tg EXCEPT !.nodes = (e :> NodeProfile(tg, e)) @@ tg.nodes]
        ELSE tg

\* self.edges.get(key, [])
edges_get(tg, key) == IF key \in DOMAIN tg.edges THEN tg.edges[key] ELSE << >>

\* from_node's updates in add_interaction
FromNodeUpdate(node, interaction) ==
    [node EXCEPT
        !.first_seen = IF node.first_seen = None THEN interaction.timestamp ELSE @,
        !.last_seen = interaction.timestamp,
        !.interaction_count = @ + 1,
        !.outgoing_count = @ + 1]

\* to_node's updates in add_interaction
ToNodeUpdate(node, interaction) ==
    [node EXCEPT
        !.first_seen = IF node.first_seen = None THEN interaction.timestamp ELSE @,
        !.last_seen = interaction.timestamp,
        !.incoming_count = @ + 1]

add_interaction(tg, interaction) ==
    LET from_addr == lower(interaction.from_addr)
        to_addr == lower(interaction.to_addr)
        g1 == get_or_create_node(get_or_create_node(tg, from_addr), to_addr)
        \* from_node and to_node are the same object when the addresses are equal
        n1 == [g1.nodes EXCEPT ![from_addr] = FromNodeUpdate(@, interaction)]
        n2 == [n1 EXCEPT ![to_addr] = ToNodeUpdate(@, interaction)]
        n3 == IF interaction.has_payment_request
              THEN [n2 EXCEPT ![from_addr].payment_requests_made = @ + 1]
              ELSE n2
        edge_key == << from_addr, to_addr >>
    IN  [g1 EXCEPT
            !.nodes = n3,
            !.edges = (edge_key :> Append(edges_get(g1, edge_key), interaction))
                      @@ g1.edges]

\* a faulty variant of calculate_relationship_strength: the duration and recency
\* factors read the outgoing direction only
calculate_relationship_strength_outgoing_only(tg, from_a, to_a, clock) ==
    LET from_addr == lower(from_a)
        to_addr == lower(to_a)
        outgoing == edges_get(tg, << from_addr, to_addr >>)
        incoming == edges_get(tg, << to_addr, from_addr >>)
        total_interactions == Len(outgoing) + Len(incoming)
        lo == Min2(Len(outgoing), Len(incoming))
        hi == Max2(Max2(Len(outgoing), Len(incoming)), 1)
        reciprocity == (lo * ONE) \div hi
        stamps == [i \in DOMAIN outgoing |-> outgoing[i].timestamp]
        first == MinOfSeq(stamps)
        last == MaxOfSeq(stamps)
        duration_days == IF stamps = << >> THEN 0 ELSE Max2(1, days_between(last, first))
        recency_factor == IF stamps = << >> THEN 0 ELSE exp_neg(days_between(clock, last))
        strength == (3 * log1p(total_interactions)) \div 10
                    + (3 * reciprocity) \div 10
                    + (2 * Min2((duration_days * ONE) \div 365, ONE)) \div 10
                    + (2 * recency_factor) \div 10
    IN  IF outgoing = << >> /\ incoming = << >> THEN 0 ELSE Min2(ONE, strength)

\* a faulty variant of calculate_relationship_strength: the interaction volume
\* weighs 0.2
calculate_relationship_strength_volume_02(tg, from_a, to_a, clock) ==
    LET from_addr == lower(from_a)
        to_addr == lower(to_a)
        outgoing == edges_get(tg, << from_addr, to_addr >>)
        incoming == edges_get(tg, << to_addr, from_addr >>)
        total_interactions == Len(outgoing) + Len(incoming)
        lo == Min2(Len(outgoing), Len(incoming))
        hi == Max2(Max2(Len(outgoing), Len(incoming)), 1)
        reciprocity == (lo * ONE) \div hi
        all_interactions == outgoing \o incoming
        stamps == [i \in DOMAIN all_interactions |-> all_interactions[i].timestamp]
        first == MinOfSeq(stamps)
        last == MaxOfSeq(stamps)
        duration_days == Max2(1, days_between(last, first))
        recency_factor == exp_neg(days_between(clock, last))
        strength == (2 * log1p(total_interactions)) \div 10
                    + (3 * reciprocity) \div 10
                    + (2 * Min2((duration_days * ONE) \div 365, ONE)) \div 10
                    + (2 * recency_factor) \div 10
    IN  IF outgoing = << >> /\ incoming = << >> THEN 0 ELSE Min2(ONE, strength)

\* clock is the value datetime.now() returns during the call
calculate_relationship_strength(tg, from_a, to_a, clock) ==
    LET from_addr == lower(from_a)
        to_addr == lower(to_a)
        outgoing == edges_get(tg, << from_addr, to_addr >>)
        incoming == edges_get(tg, << to_addr, from_addr >>)
        total_interactions == Len(outgoing) + Len(incoming)
        lo == Min2(Len(outgoing), Len(incoming))
        hi == Max2(Max2(Len(outgoing), Len(incoming)), 1)
        reciprocity == (lo * ONE) \div hi
        all_interactions == outgoing \o incoming
        stamps == [i \in DOMAIN all_interactions |-> all_interactions[i].timestamp]
        first == MinOfSeq(stamps)
        last == MaxOfSeq(stamps)
        duration_days == Max2(1, days_between(last, first))
        recency_factor == exp_neg(days_between(clock, last))
        strength == (3 * log1p(total_interactions)) \div 10
                    + (3 * reciprocity) \div 10
                    + (2 * Min2((duration_days * ONE) \div 365, ONE)) \div 10
                    + (2 * recency_factor) \div 10
    IN  IF outgoing = << >> /\ incoming = << >> THEN 0 ELSE Min2(ONE, strength)

\* propagate_trust's defaults
Iterations == 10

\* damping = 0.85, in hundredths
DampingPct == 85

\* the inbound edges of addr: the keys (from_addr, to_addr) with to_addr == addr
InboundKeys(tg, addr) == { k \in DOMAIN tg.edges : k[2] = addr }

\* sum over the inbound edges of from_node.trust_score * strength, times ONE * ONE
incoming_trust(tg, addr, clock) ==
    LET ks == SetToSeq(InboundKeys(tg, addr))
    IN  SumSeq([i \in DOMAIN ks |->
            tg.nodes[ks[i][1]].trust_score
            * calculate_relationship_strength(tg, ks[i][1], addr, clock)])

\* a faulty variant of new_score: the inbound trust is summed, not averaged
new_score_sum(tg, addr, clock) ==
    LET incoming_count == Cardinality(InboundKeys(tg, addr))
    IN  IF tg.nodes[addr].is_internal THEN ONE
        ELSE IF incoming_count > 0
        THEN ((100 - DampingPct) * (ONE \div 10)) \div 100
             + (DampingPct * (incoming_trust(tg, addr, clock) \div ONE)) \div 100
        ELSE ONE \div 10

\* new_scores[addr] of one iteration
new_score(tg, addr, clock) ==
    LET incoming_count == Cardinality(InboundKeys(tg, addr))
    IN  IF tg.nodes[addr].is_internal THEN ONE
        ELSE IF incoming_count > 0
        THEN ((100 - DampingPct) * (ONE \div 10)) \div 100
             + (DampingPct * ((incoming_trust(tg, addr, clock) \div incoming_count)
                               \div ONE)) \div 100
        ELSE ONE \div 10

\* the trust scores propagate_trust starts from
initial_trust(node) ==
    IF node.is_internal THEN ONE
    ELSE IF node.is_executive THEN ONE
    ELSE ONE \div 10

\* a faulty variant of propagate_step: each new score is written to its node as
\* soon as it is computed, so a node visited later reads it
RECURSIVE in_place(_, _, _, _)
in_place(tg, clock, order, i) ==
    IF i > Len(order) THEN tg
    ELSE in_place([tg EXCEPT !.nodes[order[i]].trust_score =
                                  new_score(tg, order[i], clock)],
                  clock, order, i + 1)

propagate_step_in_place(tg, clock) ==
    in_place(tg, clock, Reverse(SetToSeq(DOMAIN tg.nodes)), 1)

\* one pass of the loop body: every new score is computed from the scores of
\* the pass before, then all are written
propagate_step(tg, clock) ==
    [tg EXCEPT !.nodes =
        [a \in DOMAIN tg.nodes |->
            [tg.nodes[a] EXCEPT !.trust_score = new_score(tg, a, clock)]]]

RECURSIVE propagate_iter(_, _, _)
propagate_iter(tg, clock, k) ==
    IF k = 0 THEN tg
    ELSE LET next == propagate_step(tg, clock)
         \* a pass that changes no score: the passes after it change none either
         IN  IF next = tg THEN tg ELSE propagate_iter(next, clock, k - 1)

\* the graph after k passes of propagate_trust (k = Iterations: after the call)
propagate_upto(tg, clock, k) ==
    propagate_iter(
        [tg EXCEPT !.nodes =
            [a \in DOMAIN tg.nodes |->
                [tg.nodes[a] EXCEPT !.trust_score = initial_trust(tg.nodes[a])]]],
        clock, k)

propagate_trust(tg, clock) == propagate_upto(tg, clock, Iterations)

\* a faulty variant of get_trust_score: an address without a node gets the
\* neutral 0.5 a new node starts with
get_trust_score_neutral(tg, email) ==
    IF lower(email) \in DOMAIN tg.nodes THEN tg.nodes[lower(email)].trust_score
    ELSE ONE \div 2

get_trust_score(tg, email) ==
    IF lower(email) \in DOMAIN tg.nodes THEN tg.nodes[lower(email)].trust_score ELSE 0

\* f"{x:.2f}": a score rounded to hundredths
Fmt2(x) == (x + (ONE \div 200)) \div (ONE \div 100)

\* TrustGraph._risk_level
trust_risk_level(score) ==
    IF score >= (7 * ONE) \div 10 THEN "CRITICAL"
    ELSE IF score >= (5 * ONE) \div 10 THEN "HIGH"
    ELSE IF score >= (3 * ONE) \div 10 THEN "MEDIUM"
    ELSE "LOW"

\* TrustGraph._recommendation (the text up to its colon)
trust_recommendation(score) ==
    IF score >= (7 * ONE) \div 10 THEN "BLOCK"
    ELSE IF score >= (5 * ONE) \div 10 THEN "VERIFY"
    ELSE IF score >= (3 * ONE) \div 10 THEN "REVIEW"
    ELSE "PROCEED"

\* the increments of analyze_payment_request, in order; each is << added, tags >>
PaymentFactors(tg, from_a, to_a, amount, clock) ==
    LET from_addr == lower(from_a)
        to_addr == lower(to_a)
        known == from_addr \in DOMAIN tg.nodes
        relationship_strength ==
            calculate_relationship_strength(tg, from_addr, to_addr, clock)
        trust == get_trust_score(tg, from_addr)
        f1 == IF ~known THEN << 4000, << << "UNKNOWN_SENDER" >> >> >>
              ELSE IF tg.nodes[from_addr].interaction_count < 5
              THEN << 2000, << << "LOW_HISTORY" >> >> >>
              ELSE << 0, << >> >>
        f2 == IF trust < (3 * ONE) \div 10
              THEN << 3000, << << "LOW_TRUST", Fmt2(trust) >> >> >>
              ELSE IF trust < (5 * ONE) \div 10
              THEN << 1000, << << "MEDIUM_TRUST", Fmt2(trust) >> >> >>
              ELSE << 0, << >> >>
        f3 == IF relationship_strength < (2 * ONE) \div 10
              THEN << 2500, << << "WEAK_RELATIONSHIP" >> >> >>
              ELSE << 0, << >> >>
        f4 == IF known /\ tg.nodes[from_addr].payment_requests_made = 0
              THEN << 1500, << << "FIRST_PAYMENT_REQUEST" >> >> >>
              ELSE << 0, << >> >>
        f6 == IF amount > 10000 /\ trust < (5 * ONE) \div 10
              THEN << 2000, << << "HIGH_VALUE_LOW_TRUST" >> >> >>
              ELSE << 0, << >> >>
    IN  << f1, f2, f3, f4, f6 >>

\* a faulty variant of analyze_payment_request: the returned risk_score is not clamped
analyze_payment_request_unclamped(tg, from_a, to_a, amount, clock) ==
    LET fs == PaymentFactors(tg, from_a, to_a, amount, clock)
        risk_score == SumSeq([i \in DOMAIN fs |-> fs[i][1]])
    IN  [ from_address |-> lower(from_a),
          to_address |-> lower(to_a),
          amount |-> amount,
          trust_score |-> get_trust_score(tg, lower(from_a)),
          relationship_strength |->
              calculate_relationship_strength(tg, lower(from_a), lower(to_a), clock),
          risk_score |-> risk_score,
          risk_level |-> trust_risk_level(risk_score),
          risk_factors |-> fs[1][2] \o fs[2][2] \o fs[3][2] \o fs[4][2] \o fs[5][2],
          recommendation |-> trust_recommendation(risk_score) ]

analyze_payment_request(tg, from_a, to_a, amount, clock) ==
    LET fs == PaymentFactors(tg, from_a, to_a, amount, clock)
        risk_score == SumSeq([i \in DOMAIN fs |-> fs[i][1]])
    IN  [ from_address |-> lower(from_a),
          to_address |-> lower(to_a),
          amount |-> amount,
          trust_score |-> get_trust_score(tg, lower(from_a)),
          relationship_strength |->
              calculate_relationship_strength(tg, lower(from_a), lower(to_a), clock),
          risk_score |-> Min2(ONE, risk_score),
          risk_level |-> trust_risk_level(risk_score),
          risk_factors |-> fs[1][2] \o fs[2][2] \o fs[3][2] \o fs[4][2] \o fs[5][2],
          recommendation |-> trust_recommendation(risk_score) ]

-----------------------------------------------------------------------------
(* temporal_analyzer.py *)

\* TemporalAnalyzer.__init__; email_threads keeps the dict's insertion order as
\* a sequence of [id, events]
TemporalAnalyzerInit == [ profiles |-> << >>, email_threads |-> << >> ]

\* EmailEvent built by train_on_email (response_to None is "")
TrainEvent(email) ==
    [ sender |-> email.from_addr,
      recipient |-> email.to_addr,
      timestamp |-> email.timestamp,
      timezone_offset |-> email.timezone_offset,
      message_id |-> email.message_id,
      response_to |-> email.in_reply_to ]

\* EmailEvent built by analyze_email: no response_to
AnalyzeEvent(email) ==
    [ sender |-> email.from_addr,
      recipient |-> email.to_addr,
      timestamp |-> email.timestamp,
      timezone_offset |-> email.timezone_offset,
      message_id |-> email.message_id,
      response_to |-> "" ]

\* TemporalProfile(address) with the dataclass defaults; the two distributions
\* are defaultdicts, holding only the keys written so far
TemporalProfile(email) ==
    [ address |-> email,
      hourly_distribution |-> << >>,
      daily_distribution |-> << >>,
      response_times |-> << >>,
      observed_timezones |-> << >>,
      total_emails |-> 0,
      avg_response_time |-> 0,
      std_response_time |-> 0,
      primary_timezone |-> 0,
      active_hours |-> {} ]

get_or_create_profile(ta, email) ==
    LET e == lower(email)
    IN  IF e \notin DOMAIN ta.profiles
        THEN [ta EXCEPT !.profiles = (e :> TemporalProfile(e)) @@ ta.profiles]
        ELSE ta

\* d.get(key, 0)
dict_get(d, key) == IF key \in DOMAIN d THEN d[key] ELSE 0

\* d[key] += 1 on a defaultdict(int)
dict_incr(d, key) == (key :> (dict_get(d, key) + 1)) @@ d

\* self.email_threads[thread_id].append(event) on a defaultdict(list)
threads_append(threads, thread_id, event) ==
    IF \E i \in DOMAIN threads : threads[i].id = thread_id
    THEN [i \in DOMAIN threads |->
            IF threads[i].id = thread_id
            THEN [threads[i] EXCEPT !.events = Append(@, event)]
            ELSE threads[i]]
    ELSE Append(threads, [id |-> thread_id, events |-> << event >>])

\* a faulty variant of add_email: an event that answers a thread is filed in
\* the thread and not counted in total_emails
add_email_reply_not_counted(ta, event) ==
    LET t1 == get_or_create_profile(ta, event.sender)
        key == lower(event.sender)
        hour == hour_of(event.timestamp)
        day == weekday_of(event.timestamp)
        p1 == [t1.profiles[key] EXCEPT
                 !.hourly_distribution = dict_incr(@, hour),
                 !.daily_distribution = dict_incr(@, day),
                 !.observed_timezones = Append(@, event.timezone_offset),
                 !.total_emails = IF event.response_to # "" THEN @ ELSE @ + 1]
    IN  [t1 EXCEPT
            !.profiles[key] = p1,
            !.email_threads = IF event.response_to # ""
                              THEN threads_append(@, event.response_to, event)
                              ELSE @]

\* TemporalAnalyzer.add_email
add_email(ta, event) ==
    LET t1 == get_or_create_profile(ta, event.sender)
        key == lower(event.sender)
        hour == hour_of(event.timestamp)
        day == weekday_of(event.timestamp)
        p1 == [t1.profiles[key] EXCEPT
                 !.hourly_distribution = dict_incr(@, hour),
                 !.daily_distribution = dict_incr(@, day),
                 !.observed_timezones = Append(@, event.timezone_offset),
                 !.total_emails = @ + 1]
    IN  [t1 EXCEPT
            !.profiles[key] = p1,
            !.email_threads = IF event.response_to # ""
                              THEN threads_append(@, event.response_to, event)
                              ELSE @]

\* insert event into a sequence sorted by timestamp, after the events of an
\* equal timestamp (list.sort is stable)
RECURSIVE insert_sorted(_, _)
insert_sorted(sorted, event) ==
    IF sorted = << >> THEN << event >>
    ELSE IF event.timestamp < Head(sorted).timestamp THEN << event >> \o sorted
    ELSE << Head(sorted) >> \o insert_sorted(Tail(sorted), event)

\* events.sort(key=lambda e: e.timestamp)
RECURSIVE sort_events(_)
sort_events(events) ==
    IF events = << >> THEN << >>
    ELSE insert_sorted(sort_events(SubSeq(events, 1, Len(events) - 1)),
                       events[Len(events)])

\* total_seconds() / 60 of the gap between events i-1 and i
response_time(events, i) == events[i].timestamp - events[i - 1].timestamp

\* one week, in minutes
WeekMinutes == 10080

\* the inner loop of calculate_response_times over a sorted thread, from index i
RECURSIVE thread_response_times(_, _, _)
thread_response_times(ta, events, i) ==
    IF i > Len(events) THEN ta
    ELSE LET rt == response_time(events, i)
             t1 == get_or_create_profile(ta, events[i].sender)
             t2 == [t1 EXCEPT
                      !.profiles[lower(events[i].sender)].response_times =
                          Append(@, rt)]
         IN  thread_response_times(
                 IF rt > 0 /\ rt < WeekMinutes THEN t2 ELSE ta, events, i + 1)

\* the outer loop of calculate_response_times, from thread index k
RECURSIVE calculate_response_times_from(_, _)
calculate_response_times_from(ta, k) ==
    IF k > Len(ta.email_threads) THEN ta
    ELSE IF Len(ta.email_threads[k].events) < 2
    THEN calculate_response_times_from(ta, k + 1)
    ELSE LET events == sort_events(ta.email_threads[k].events)
             t1 == [ta EXCEPT !.email_threads[k].events = events]
         IN  calculate_response_times_from(thread_response_times(t1, events, 2), k + 1)

\* a faulty variant of calculate_response_times: the events of a thread are
\* taken in the order they were recorded
RECURSIVE calculate_response_times_unsorted_from(_, _)
calculate_response_times_unsorted_from(ta, k) ==
    IF k > Len(ta.email_threads) THEN ta
    ELSE IF Len(ta.email_threads[k].events) < 2
    THEN calculate_response_times_unsorted_from(ta, k + 1)
    ELSE calculate_response_times_unsorted_from(
             thread_response_times(ta, ta.email_threads[k].events, 2), k + 1)

calculate_response_times_unsorted(ta) == calculate_response_times_unsorted_from(ta, 1)

calculate_response_times(ta) == calculate_response_times_from(ta, 1)

\* the largest r with r * r <= n, by bisection on lo..hi
RECURSIVE isqrt_between(_, _, _)
isqrt_between(n, lo, hi) ==
    IF lo >= hi THEN lo
    ELSE LET mid == (lo + hi + 1) \div 2
         IN  IF mid * mid <= n THEN isqrt_between(n, mid, hi)
             ELSE isqrt_between(n, lo, mid - 1)

isqrt(n) == isqrt_between(n, 0, Min2(n, 40000))

\* statistics.mean, in hundredths
mean100(xs) == (SumSeq(xs) * 100) \div Len(xs)

\* statistics.stdev (the sample standard deviation), in tenths
stdev10(xs) ==
    LET n == Len(xs)
        s1 == SumSeq(xs)
        s2 == SumSeq([i \in DOMAIN xs |-> xs[i] * xs[i]])
    IN  isqrt(((n * s2 - s1 * s1) * 100) \div (n * (n - 1)))

\* statistics.mode: the most common value, the first one met on a tie
mode(xs) ==
    LET count(v) == Cardinality({ i \in DOMAIN xs : xs[i] = v })
        best == CHOOSE i \in DOMAIN xs :
                    /\ \A j \in DOMAIN xs : count(xs[j]) <= count(xs[i])
                    /\ \A j \in 1..(i - 1) : count(xs[j]) < count(xs[i])
    IN  xs[best]

\* the hours with count >= total_emails * 0.05 (as a set: the list's order is
\* the dict's and is not read)
active_hours_of(profile) ==
    { h \in DOMAIN profile.hourly_distribution :
        profile.hourly_distribution[h] * 20 >= profile.total_emails }

\* the loop body of finalize_profiles
finalize_profile(profile) ==
    LET p1 == IF profile.response_times # << >>
              THEN [profile EXCEPT
                      !.avg_response_time = mean100(profile.response_times),
                      !.std_response_time =
                          IF Len(profile.response_times) > 1
                          THEN stdev10(profile.response_times) ELSE @]
              ELSE profile
        p2 == IF p1.observed_timezones # << >>
              THEN [p1 EXCEPT !.primary_timezone = mode(p1.observed_timezones)]
              ELSE p1
    IN  IF p2.total_emails > 0
        THEN [p2 EXCEPT !.active_hours = active_hours_of(p2)]
        ELSE p2

finalize_profiles(ta) ==
    LET t1 == calculate_response_times(ta)
    IN  [t1 EXCEPT !.profiles = [a \in DOMAIN t1.profiles |-> finalize_profile(t1.profiles[a])]]

\* the minimum history analyze_email asks of a profile
MinHistory == 20

\* hour_prob < 0.02, with hour_prob = count / total_emails
get_hourly_count(profile, hour) == dict_get(profile.hourly_distribution, hour)

get_daily_count(profile, day) == dict_get(profile.daily_distribution, day)

\* count / total < pct / 100 (total > 0 where this is used: total >= MinHistory)
prob_below(count, total, pct) == count * 100 < pct * total

\* TemporalAnalyzer._risk_level
temporal_risk_level(score) ==
    IF score >= (6 * ONE) \div 10 THEN "HIGH"
    ELSE IF score >= (3 * ONE) \div 10 THEN "MEDIUM"
    ELSE "LOW"

\* a faulty variant of TemporalChecks: an hour is unusual below 10%
TemporalChecks_unusual_below_ten(profile, event) ==
    LET hour == hour_of(event.timestamp)
        day == weekday_of(event.timestamp)
        total == profile.total_emails
        hcount == get_hourly_count(profile, hour)
        dcount == get_daily_count(profile, day)
        unusual_hour == prob_below(hcount, total, 10)
        c2 == IF unusual_hour
              THEN IF hour \notin profile.active_hours
                   THEN << 5000, << << "UNUSUAL_HOUR", hour >>, << "DEAD_ZONE", hour >> >> >>
                   ELSE << 3000, << << "UNUSUAL_HOUR", hour >> >> >>
              ELSE << 0, << >> >>
        c3 == IF prob_below(dcount, total, 5)
              THEN << 1500, << << "UNUSUAL_DAY", day >> >> >>
              ELSE << 0, << >> >>
        tz_diff == Abs(event.timezone_offset - profile.primary_timezone)
        c4 == IF event.timezone_offset # 0 /\ profile.primary_timezone # 0 /\ tz_diff > 60
              THEN IF tz_diff > 300
                   THEN << 4500, << << "TIMEZONE_MISMATCH", event.timezone_offset >>,
                                    << "MAJOR_TZ_SHIFT" >> >> >>
                   ELSE << 2500, << << "TIMEZONE_MISMATCH", event.timezone_offset >> >> >>
              ELSE << 0, << >> >>
        local_hour == (hour + FloorDiv(profile.primary_timezone, 60)) % 24
        c5 == IF local_hour >= 1 /\ local_hour <= 5 /\ prob_below(hcount, total, 5)
              THEN << 2000, << << "LATE_NIGHT", local_hour >> >> >>
              ELSE << 0, << >> >>
    IN  << c2, c3, c4, c5 >>

\* checks 2 to 5 of analyze_email; each is << added, tags >>
TemporalChecks(profile, event) ==
    LET hour == hour_of(event.timestamp)
        day == weekday_of(event.timestamp)
        total == profile.total_emails
        hcount == get_hourly_count(profile, hour)
        dcount == get_daily_count(profile, day)
        unusual_hour == prob_below(hcount, total, 2)
        c2 == IF unusual_hour
              THEN IF hour \notin profile.active_hours
                   THEN << 5000, << << "UNUSUAL_HOUR", hour >>, << "DEAD_ZONE", hour >> >> >>
                   ELSE << 3000, << << "UNUSUAL_HOUR", hour >> >> >>
              ELSE << 0, << >> >>
        c3 == IF prob_below(dcount, total, 5)
              THEN << 1500, << << "UNUSUAL_DAY", day >> >> >>
              ELSE << 0, << >> >>
        tz_diff == Abs(event.timezone_offset - profile.primary_timezone)
        c4 == IF event.timezone_offset # 0 /\ profile.primary_timezone # 0 /\ tz_diff > 60
              THEN IF tz_diff > 300
                   THEN << 4500, << << "TIMEZONE_MISMATCH", event.timezone_offset >>,
                                    << "MAJOR_TZ_SHIFT" >> >> >>
                   ELSE << 2500, << << "TIMEZONE_MISMATCH", event.timezone_offset >> >> >>
              ELSE << 0, << >> >>
        local_hour == (hour + FloorDiv(profile.primary_timezone, 60)) % 24
        c5 == IF local_hour >= 1 /\ local_hour <= 5 /\ prob_below(hcount, total, 5)
              THEN << 2000, << << "LATE_NIGHT", local_hour >> >> >>
              ELSE << 0, << >> >>
    IN  << c2, c3, c4, c5 >>

\* a faulty variant of temporal_analyze_email: a profile of exactly MinHistory
\* emails is still treated as no baseline
temporal_analyze_email_over_min(ta, event) ==
    LET key == lower(event.sender)
        has_profile == key \in DOMAIN ta.profiles
    IN  IF ~has_profile \/ ta.profiles[key].total_emails <= MinHistory
        THEN [ sender |-> event.sender,
               anomaly_score |-> ONE \div 2,
               anomalies |-> << << "INSUFFICIENT_HISTORY" >> >>,
               has_baseline |-> FALSE,
               risk_level |-> NoneStr ]
        ELSE LET cs == TemporalChecks(ta.profiles[key], event)
                 anomaly_score == SumSeq([i \in DOMAIN cs |-> cs[i][1]])
             IN  [ sender |-> event.sender,
                   anomaly_score |-> Min2(ONE, anomaly_score),
                   anomalies |-> cs[1][2] \o cs[2][2] \o cs[3][2] \o cs[4][2],
                   has_baseline |-> TRUE,
                   risk_level |-> temporal_risk_level(anomaly_score) ]

\* TemporalAnalyzer.analyze_email
temporal_analyze_email(ta, event) ==
    LET key == lower(event.sender)
        has_profile == key \in DOMAIN ta.profiles
    IN  IF ~has_profile \/ ta.profiles[key].total_emails < MinHistory
        THEN [ sender |-> event.sender,
               anomaly_score |-> ONE \div 2,
               anomalies |-> << << "INSUFFICIENT_HISTORY" >> >>,
               has_baseline |-> FALSE,
               risk_level |-> NoneStr ]
        ELSE LET cs == TemporalChecks(ta.profiles[key], event)
                 anomaly_score == SumSeq([i \in DOMAIN cs |-> cs[i][1]])
             IN  [ sender |-> event.sender,
                   anomaly_score |-> Min2(ONE, anomaly_score),
                   anomalies |-> cs[1][2] \o cs[2][2] \o cs[3][2] \o cs[4][2],
                   has_baseline |-> TRUE,
                   risk_level |-> temporal_risk_level(anomaly_score) ]

-----------------------------------------------------------------------------
(* stylometry_engine.py *)

(* The texts of the model.  Strings are atomic in TLA+, so what the regular  *)
(* expressions and str.count / `in` of the source read off a text is tabled *)
(* per text in TextData; every feature is then computed from those counts.  *)

DemoBody1 == "Hi Brian,  I've reviewed the Q4 budget projections and everything looks on track.  The marketing spend is slightly higher than expected, but we're seeing  good ROI on the new campaigns.  Let's sync tomorrow to discuss the capital allocation for next quarter.  Best, Sarah CFO, Cyrenity"

DemoBody2 == "Brian,  I've approved the vendor payment request. Please proceed through the  normal channels - finance team will handle the wire transfer via our  standard process.  Thanks, Sarah"

DemoBody3 == "Hi Brian,  Attached are the monthly financials for your review. Key highlights: - Revenue up 12% MoM - EBITDA margin improved to 23% - Cash position remains strong  Let me know if you have any questions.  Best, Sarah Chief Financial Officer"

DemoBody4 == "Dear Mr. Brown,  Please find attached invoice #2024-1234 for services rendered in January. Payment terms are net-30 as per our agreement.  Our banking details remain unchanged from our master services agreement.  Best regards, John Smith Accounts Receivable Trusted Vendor Inc."

DemoBody5 == "Brian,  Our team has completed the review of the proposed acquisition agreement. Overall, the terms are favorable. I've marked up a few sections that  need attention - see my comments in the attached redline.  Please call me at your convenience to discuss.  Regards, Michael Patterson Partner, Smith & Associates LLP"

DemoBody6 == "Hi Brian,  You have 3 expense reports pending approval in Concur: - Marketing team Q1 travel: $4,500 - Engineering conference: $2,100   - Client dinner: $350  Please approve when you get a chance.  Thanks, Accounting Team"

BodyEmpty == ""

BodyShort == "Thanks, see you at the meeting tomorrow."

BodyFormal == "Please find attached the invoice for services rendered in January. Payment terms are net thirty, as per our agreement. Our banking details remain unchanged."

BodyUrgent == "I need you to wire the payment today! This is urgent and confidential, so don't tell anyone. Send it immediately, I'm in a meeting and can't talk now!"

BodyTable == "2024-01-31: 1,250.00 / 2024-02-29: 1,310.50 / 2024-03-31: 1,198.75 / 2024-04-30: 1,402.10 / 2024-05-31: 1,377.00 / 2024-06-30: 1,290.40"

BodyHedged == "Maybe we could perhaps meet next week, I think. It seems the numbers are probably fine, and the report is likely ready; I guess we might possibly review it then."

DemoSubject1 == "Q4 Budget Review"

DemoSubject2 == "Re: Vendor Payment Approval"

DemoSubject3 == "Monthly financials attached"

DemoSubject4 == "Invoice #2024-1234"

DemoSubject5 == "Contract review complete"

DemoSubject6 == "Expense report approval needed"

SubjectPlain == "Invoice for January"

SubjectUrgent == "URGENT: wire transfer needed ASAP"

\* per text: len(text); tokenize(text) (its length, the summed word lengths, the
\* distinct words, the Counter of function words); the tokenized lengths of
\* get_sentences(text); the str.count of each punctuation mark; the matches of
\* the contraction pattern; the first-person, hedge and certainty words; the
\* URGENCY_WORDS phrases found in the text; and the urgency and secrecy keywords
\* of BECScorer.analyze_email found in the lower-cased text
TextData(text) ==
    CASE text = DemoBody1 ->
           [ chars |-> 285, word_count |-> 47, word_chars |-> 224, unique_words |-> 43,
             function_words |-> ("i" :> 1) @@ ("the" :> 4) @@ ("and" :> 1) @@ ("on" :> 2) @@ ("is" :> 1) @@ ("than" :> 1) @@ ("but" :> 1) @@ ("we" :> 1) @@ ("to" :> 1) @@ ("for" :> 1),
             sentence_lengths |-> << 13, 18, 12, 4 >>, commas |-> 4, semicolons |-> 0,
             exclamations |-> 0, questions |-> 0, dashes |-> 0, contractions |-> 3,
             first_person |-> 1, hedge_count |-> 0, certainty_count |-> 0,
             urgency_count |-> 0, urgency_keywords |-> {}, secrecy_keywords |-> {} ]
      [] text = DemoBody2 ->
           [ chars |-> 180, word_count |-> 27, word_chars |-> 144, unique_words |-> 25,
             function_words |-> ("i" :> 1) @@ ("the" :> 3) @@ ("through" :> 1) @@ ("will" :> 1),
             sentence_lengths |-> << 8, 17, 2 >>, commas |-> 2, semicolons |-> 0,
             exclamations |-> 0, questions |-> 0, dashes |-> 1, contractions |-> 1,
             first_person |-> 1, hedge_count |-> 0, certainty_count |-> 0,
             urgency_count |-> 0, urgency_keywords |-> {}, secrecy_keywords |-> {} ]
      [] text = DemoBody3 ->
           [ chars |-> 240, word_count |-> 36, word_chars |-> 183, unique_words |-> 36,
             function_words |-> ("are" :> 1) @@ ("the" :> 1) @@ ("for" :> 1) @@ ("up" :> 1) @@ ("to" :> 1) @@ ("if" :> 1) @@ ("you" :> 1) @@ ("have" :> 1),
             sentence_lengths |-> << 10, 21, 5 >>, commas |-> 2, semicolons |-> 0,
             exclamations |-> 0, questions |-> 0, dashes |-> 3, contractions |-> 0,
             first_person |-> 1, hedge_count |-> 0, certainty_count |-> 0,
             urgency_count |-> 1, urgency_keywords |-> {"now"},
             secrecy_keywords |-> {} ]
      [] text = DemoBody4 ->
           [ chars |-> 277, word_count |-> 39, word_chars |-> 215, unique_words |-> 35,
             function_words |-> ("for" :> 1) @@ ("in" :> 1) @@ ("are" :> 1) @@ ("as" :> 1) @@ ("from" :> 1),
             sentence_lengths |-> << 2, 10, 8, 10, 9 >>, commas |-> 2,
             semicolons |-> 0, exclamations |-> 0, questions |-> 0, dashes |-> 2,
             contractions |-> 0, first_person |-> 0, hedge_count |-> 0,
             certainty_count |-> 0, urgency_count |-> 0, urgency_keywords |-> {},
             secrecy_keywords |-> {} ]
      [] text = DemoBody5 ->
           [ chars |-> 316, word_count |-> 49, word_chars |-> 252, unique_words |-> 46,
             function_words |-> ("has" :> 1) @@ ("the" :> 4) @@ ("of" :> 1) @@ ("are" :> 1) @@ ("i" :> 1) @@ ("up" :> 1) @@ ("a" :> 1) @@ ("few" :> 1) @@ ("that" :> 1) @@ ("in" :> 1) @@ ("at" :> 1) @@ ("to" :> 1),
             sentence_lengths |-> << 12, 5, 17, 8, 7 >>, commas |-> 4,
             semicolons |-> 0, exclamations |-> 0, questions |-> 0, dashes |-> 1,
             contractions |-> 1, first_person |-> 3, hedge_count |-> 0,
             certainty_count |-> 0, urgency_count |-> 0, urgency_keywords |-> {},
             secrecy_keywords |-> {} ]
      [] text = DemoBody6 ->
           [ chars |-> 221, word_count |-> 27, word_chars |-> 153, unique_words |-> 25,
             function_words |-> ("you" :> 2) @@ ("have" :> 1) @@ ("in" :> 1) @@ ("when" :> 1) @@ ("a" :> 1),
             sentence_lengths |-> << 24, 3 >>, commas |-> 4, semicolons |-> 0,
             exclamations |-> 0, questions |-> 0, dashes |-> 3, contractions |-> 0,
             first_person |-> 0, hedge_count |-> 0, certainty_count |-> 0,
             urgency_count |-> 0, urgency_keywords |-> {}, secrecy_keywords |-> {} ]
      [] text = BodyEmpty ->
           [ chars |-> 0, word_count |-> 0, word_chars |-> 0, unique_words |-> 0,
             function_words |-> << >>, sentence_lengths |-> << >>, commas |-> 0,
             semicolons |-> 0, exclamations |-> 0, questions |-> 0, dashes |-> 0,
             contractions |-> 0, first_person |-> 0, hedge_count |-> 0,
             certainty_count |-> 0, urgency_count |-> 0, urgency_keywords |-> {},
             secrecy_keywords |-> {} ]
      [] text = BodyTable ->
           [ chars |-> 135, word_count |-> 0, word_chars |-> 0, unique_words |-> 0,
             function_words |-> << >>, sentence_lengths |-> << 0, 0, 0, 0, 0, 0, 0 >>,
             commas |-> 6, semicolons |-> 0, exclamations |-> 0, questions |-> 0,
             dashes |-> 12, contractions |-> 0, first_person |-> 0, hedge_count |-> 0,
             certainty_count |-> 0, urgency_count |-> 0, urgency_keywords |-> {},
             secrecy_keywords |-> {} ]
      [] text = BodyShort ->
           [ chars |-> 40, word_count |-> 7, word_chars |-> 32, unique_words |-> 7,
             function_words |-> ("you" :> 1) @@ ("at" :> 1) @@ ("the" :> 1),
             sentence_lengths |-> << 7 >>, commas |-> 1, semicolons |-> 0,
             exclamations |-> 0, questions |-> 0, dashes |-> 0, contractions |-> 0,
             first_person |-> 0, hedge_count |-> 0, certainty_count |-> 0,
             urgency_count |-> 0, urgency_keywords |-> {}, secrecy_keywords |-> {} ]
      [] text = BodyFormal ->
           [ chars |-> 156, word_count |-> 24, word_chars |-> 129, unique_words |-> 23,
             function_words |-> ("the" :> 1) @@ ("for" :> 1) @@ ("in" :> 1) @@ ("are" :> 1) @@ ("as" :> 1),
             sentence_lengths |-> << 10, 9, 5 >>, commas |-> 1, semicolons |-> 0,
             exclamations |-> 0, questions |-> 0, dashes |-> 0, contractions |-> 0,
             first_person |-> 0, hedge_count |-> 0, certainty_count |-> 0,
             urgency_count |-> 0, urgency_keywords |-> {}, secrecy_keywords |-> {} ]
      [] text = BodyUrgent ->
           [ chars |-> 150, word_count |-> 31, word_chars |-> 115, unique_words |-> 28,
             function_words |-> ("i" :> 2) @@ ("you" :> 1) @@ ("to" :> 1) @@ ("the" :> 1) @@ ("this" :> 1) @@ ("is" :> 1) @@ ("and" :> 2) @@ ("so" :> 1) @@ ("it" :> 1) @@ ("in" :> 1) @@ ("a" :> 1) @@ ("can" :> 1) @@ ("now" :> 1),
             sentence_lengths |-> << 8, 10, 13 >>, commas |-> 2, semicolons |-> 0,
             exclamations |-> 2, questions |-> 0, dashes |-> 0, contractions |-> 3,
             first_person |-> 2, hedge_count |-> 0, certainty_count |-> 0,
             urgency_count |-> 4,
             urgency_keywords |-> {"immediately", "now", "today", "urgent"},
             secrecy_keywords |-> {"confidential", "don't tell"} ]
      [] text = BodyHedged ->
           [ chars |-> 161, word_count |-> 30, word_chars |-> 127, unique_words |-> 26,
             function_words |-> ("we" :> 2) @@ ("could" :> 1) @@ ("i" :> 2) @@ ("it" :> 2) @@ ("the" :> 2) @@ ("are" :> 1) @@ ("and" :> 1) @@ ("is" :> 1) @@ ("might" :> 1) @@ ("then" :> 1),
             sentence_lengths |-> << 9, 21 >>, commas |-> 2, semicolons |-> 1,
             exclamations |-> 0, questions |-> 0, dashes |-> 0, contractions |-> 0,
             first_person |-> 2, hedge_count |-> 10, certainty_count |-> 0,
             urgency_count |-> 0, urgency_keywords |-> {}, secrecy_keywords |-> {} ]
      [] text = DemoSubject1 ->
           [ chars |-> 16, word_count |-> 2, word_chars |-> 12, unique_words |-> 2,
             function_words |-> << >>, sentence_lengths |-> << 2 >>, commas |-> 0,
             semicolons |-> 0, exclamations |-> 0, questions |-> 0, dashes |-> 0,
             contractions |-> 0, first_person |-> 0, hedge_count |-> 0,
             certainty_count |-> 0, urgency_count |-> 0, urgency_keywords |-> {},
             secrecy_keywords |-> {} ]
      [] text = DemoSubject2 ->
           [ chars |-> 27, word_count |-> 4, word_chars |-> 23, unique_words |-> 4,
             function_words |-> << >>, sentence_lengths |-> << 4 >>, commas |-> 0,
             semicolons |-> 0, exclamations |-> 0, questions |-> 0, dashes |-> 0,
             contractions |-> 0, first_person |-> 0, hedge_count |-> 0,
             certainty_count |-> 0, urgency_count |-> 0, urgency_keywords |-> {},
             secrecy_keywords |-> {} ]
      [] text = DemoSubject3 ->
           [ chars |-> 27, word_count |-> 3, word_chars |-> 25, unique_words |-> 3,
             function_words |-> << >>, sentence_lengths |-> << 3 >>, commas |-> 0,
             semicolons |-> 0, exclamations |-> 0, questions |-> 0, dashes |-> 0,
             contractions |-> 0, first_person |-> 0, hedge_count |-> 0,
             certainty_count |-> 0, urgency_count |-> 0, urgency_keywords |-> {},
             secrecy_keywords |-> {} ]
      [] text = DemoSubject4 ->
           [ chars |-> 18, word_count |-> 1, word_chars |-> 7, unique_words |-> 1,
             function_words |-> << >>, sentence_lengths |-> << 1 >>, commas |-> 0,
             semicolons |-> 0, exclamations |-> 0, questions |-> 0, dashes |-> 1,
             contractions |-> 0, first_person |-> 0, hedge_count |-> 0,
             certainty_count |-> 0, urgency_count |-> 0, urgency_keywords |-> {},
             secrecy_keywords |-> {} ]
      [] text = DemoSubject5 ->
           [ chars |-> 24, word_count |-> 3, word_chars |-> 22, unique_words |-> 3,
             function_words |-> << >>, sentence_lengths |-> << 3 >>, commas |-> 0,
             semicolons |-> 0, exclamations |-> 0, questions |-> 0, dashes |-> 0,
             contractions |-> 0, first_person |-> 0, hedge_count |-> 0,
             certainty_count |-> 0, urgency_count |-> 0, urgency_keywords |-> {},
             secrecy_keywords |-> {} ]
      [] text = DemoSubject6 ->
           [ chars |-> 30, word_count |-> 4, word_chars |-> 27, unique_words |-> 4,
             function_words |-> << >>, sentence_lengths |-> << 4 >>, commas |-> 0,
             semicolons |-> 0, exclamations |-> 0, questions |-> 0, dashes |-> 0,
             contractions |-> 0, first_person |-> 0, hedge_count |-> 0,
             certainty_count |-> 0, urgency_count |-> 0, urgency_keywords |-> {},
             secrecy_keywords |-> {} ]
      [] text = SubjectPlain ->
           [ chars |-> 19, word_count |-> 3, word_chars |-> 17, unique_words |-> 3,
             function_words |-> ("for" :> 1), sentence_lengths |-> << 3 >>,
             commas |-> 0, semicolons |-> 0, exclamations |-> 0, questions |-> 0,
             dashes |-> 0, contractions |-> 0, first_person |-> 0, hedge_count |-> 0,
             certainty_count |-> 0, urgency_count |-> 0, urgency_keywords |-> {},
             secrecy_keywords |-> {} ]
      [] text = SubjectUrgent ->
           [ chars |-> 33, word_count |-> 5, word_chars |-> 28, unique_words |-> 5,
             function_words |-> << >>, sentence_lengths |-> << 5 >>, commas |-> 0,
             semicolons |-> 0, exclamations |-> 0, questions |-> 0, dashes |-> 0,
             contractions |-> 0, first_person |-> 0, hedge_count |-> 0,
             certainty_count |-> 0, urgency_count |-> 2,
             urgency_keywords |-> {"asap", "urgent"}, secrecy_keywords |-> {} ]

\* StylometryEngine.__init__
StylometryEngineInit == [ profiles |-> << >>, sample_texts |-> << >> ]

\* features are kept in thousandths, function-word frequencies in millionths
MILLI == 10 * 100

PPM == MILLI * MILLI

\* statistics.mean of a sequence of scaled values
mean_scaled(xs) == SumSeq(xs) \div Len(xs)

\* statistics.stdev of the sentence lengths, in thousandths
sentence_stdev(xs) ==
    LET n == Len(xs)
        s1 == SumSeq(xs)
        s2 == SumSeq([i \in DOMAIN xs |-> xs[i] * xs[i]])
    IN  isqrt(((n * s2 - s1 * s1) * 10000) \div (n * (n - 1))) * 10

\* x per 100 words, in thousandths
rate(count, word_count) == (count * 100 * MILLI) \div word_count

\* the formality heuristic of extract_features, in thousandths
formality_of(contraction_rate, exclamation_rate, avg_sentence_length) ==
    LET f0 == MILLI \div 2
        f1 == IF contraction_rate > 2 * MILLI THEN f0 - 200 ELSE f0
        f2 == IF exclamation_rate > 1 * MILLI THEN f1 - 100 ELSE f1
        f3 == IF avg_sentence_length > 20 * MILLI THEN f2 + 200 ELSE f2
    IN  Max2(0, Min2(MILLI, f3))

\* extract_features; {} (no words) is the record with empty |-> TRUE
extract_features(text) ==
    LET d == TextData(text)
        wc == d.word_count
        avg_sentence_length ==
            IF d.sentence_lengths # << >>
            THEN (SumSeq(d.sentence_lengths) * MILLI) \div Len(d.sentence_lengths)
            ELSE wc * MILLI
        contraction_rate == rate(d.contractions, wc)
        exclamation_rate == rate(d.exclamations, wc)
    IN  IF wc = 0 THEN [ empty |-> TRUE ]
        ELSE [ empty |-> FALSE,
               avg_word_length |-> (d.word_chars * MILLI) \div wc,
               vocabulary_richness |-> (d.unique_words * MILLI) \div wc,
               function_words |->
                   [w \in DOMAIN d.function_words |-> (d.function_words[w] * PPM) \div wc],
               avg_sentence_length |-> avg_sentence_length,
               sentence_length_std |->
                   IF Len(d.sentence_lengths) > 1
                   THEN sentence_stdev(d.sentence_lengths) ELSE 0,
               comma_rate |-> rate(d.commas, wc),
               semicolon_rate |-> rate(d.semicolons, wc),
               exclamation_rate |-> exclamation_rate,
               question_rate |-> rate(d.questions, wc),
               dash_rate |-> rate(d.dashes, wc),
               contraction_rate |-> contraction_rate,
               first_person_rate |-> rate(d.first_person, wc),
               formality_score |->
                   formality_of(contraction_rate, exclamation_rate, avg_sentence_length),
               hedge_count |-> d.hedge_count,
               certainty_count |-> d.certainty_count,
               urgency_count |-> d.urgency_count ]

\* self.sample_texts.get(author, [])
samples_get(se, author) ==
    IF author \in DOMAIN se.sample_texts THEN se.sample_texts[author] ELSE << >>

add_sample(se, author, text) ==
    LET a == lower(author)
    IN  [se EXCEPT !.sample_texts = (a :> Append(samples_get(se, a), text)) @@ @]

\* the samples build_profile asks for
MinSamples == 10

\* the subsequence of the non-empty feature records
RECURSIVE non_empty(_)
non_empty(fs) ==
    IF fs = << >> THEN << >>
    ELSE IF Head(fs).empty THEN non_empty(Tail(fs))
    ELSE << Head(fs) >> \o non_empty(Tail(fs))

\* the subsequence of the frequencies of word in the samples that hold it
RECURSIVE word_freqs(_, _)
word_freqs(fs, word) ==
    IF fs = << >> THEN << >>
    ELSE IF word \in DOMAIN Head(fs).function_words
    THEN << Head(fs).function_words[word] >> \o word_freqs(Tail(fs), word)
    ELSE word_freqs(Tail(fs), word)

\* StyleProfile(author) filled by build_profile from the feature records all
StyleProfile(author, all, samples) ==
    LET avg(field_of(_)) == mean_scaled([i \in DOMAIN all |-> field_of(all[i])])
        f_awl(f) == f.avg_word_length
        f_voc(f) == f.vocabulary_richness
        f_asl(f) == f.avg_sentence_length
        f_sls(f) == f.sentence_length_std
        f_com(f) == f.comma_rate
        f_sem(f) == f.semicolon_rate
        f_exc(f) == f.exclamation_rate
        f_que(f) == f.question_rate
        f_das(f) == f.dash_rate
        f_con(f) == f.contraction_rate
        f_fpr(f) == f.first_person_rate
        f_for(f) == f.formality_score
        words == UNION { DOMAIN all[i].function_words : i \in DOMAIN all }
    IN  [ author |-> author,
          avg_word_length |-> avg(f_awl),
          vocabulary_richness |-> avg(f_voc),
          function_word_freq |-> [w \in words |-> mean_scaled(word_freqs(all, w))],
          avg_sentence_length |-> avg(f_asl),
          sentence_length_std |-> avg(f_sls),
          comma_rate |-> avg(f_com),
          semicolon_rate |-> avg(f_sem),
          exclamation_rate |-> avg(f_exc),
          question_rate |-> avg(f_que),
          dash_rate |-> avg(f_das),
          contraction_rate |-> avg(f_con),
          first_person_rate |-> avg(f_fpr),
          formality_score |-> avg(f_for),
          sample_count |-> Len(all),
          total_words |-> SumSeq([i \in DOMAIN samples |-> TextData(samples[i]).word_count]) ]

\* a faulty variant of build_profile: one sample fewer than MinSamples is enough
build_profile_one_fewer(se, author) ==
    LET a == lower(author)
        samples == samples_get(se, a)
        all == non_empty([i \in DOMAIN samples |-> extract_features(samples[i])])
    IN  IF Len(samples) < MinSamples - 1 THEN se
        ELSE IF all = << >> THEN se
        ELSE [se EXCEPT !.profiles = (a :> StyleProfile(a, all, samples)) @@ @]

\* the engine after build_profile(author)
build_profile(se, author) ==
    LET a == lower(author)
        samples == samples_get(se, a)
        all == non_empty([i \in DOMAIN samples |-> extract_features(samples[i])])
    IN  IF Len(samples) < MinSamples THEN se
        ELSE IF all = << >> THEN se
        ELSE [se EXCEPT !.profiles = (a :> StyleProfile(a, all, samples)) @@ @]

\* StylometryEngine._risk_level
style_risk_level(deviation) ==
    IF deviation >= ONE \div 2 THEN "HIGH"
    ELSE IF deviation >= (3 * ONE) \div 10 THEN "MEDIUM"
    ELSE "LOW"

\* a faulty variant of compare_feature: the difference is scaled by ten times
\* the threshold
compare_feature_scaled_by_ten(expected, actual, threshold, description) ==
    LET diff == Abs(expected - actual)
    IN  IF diff > threshold
        THEN << Min2((diff * ONE) \div (threshold * 10), (3 * ONE) \div 10),
                << << description, expected, actual >> >> >>
        ELSE << 0, << >> >>

\* one row of comparisons: << added, tags >> for the values expected and actual
\* (thousandths) against threshold (thousandths)
compare_feature(expected, actual, threshold, description) ==
    LET diff == Abs(expected - actual)
    IN  IF diff > threshold
        THEN << Min2((diff * ONE) \div (threshold * 2), (3 * ONE) \div 10),
                << << description, expected, actual >> >> >>
        ELSE << 0, << >> >>

\* the function-word comparison: << added, tags >>
compare_function_words(profile, features) ==
    LET words == SetToSeq(DOMAIN profile.function_word_freq)
        func_deviation ==
            SumSeq([i \in DOMAIN words |->
                Abs(profile.function_word_freq[words[i]]
                    - dict_get(features.function_words, words[i]))])
        compared_words == Len(words)
        avg_func_deviation == func_deviation \div compared_words
    IN  IF DOMAIN profile.function_word_freq # {} /\ DOMAIN features.function_words # {}
           /\ avg_func_deviation > PPM \div 100
        THEN << Min2((avg_func_deviation * 10) \div (PPM \div ONE), (3 * ONE) \div 10),
                << << "FUNCTION_WORDS" >> >> >>
        ELSE << 0, << >> >>

\* the deviations compare_to_profile adds up, in order; each is << added, tags >>
StyleDeviations(profile, features) ==
    << compare_feature(profile.avg_word_length, features.avg_word_length,
                       MILLI \div 2, "WORD LENGTH"),
       compare_feature(profile.avg_sentence_length, features.avg_sentence_length,
                       3 * MILLI, "SENTENCE LENGTH"),
       compare_feature(profile.comma_rate, features.comma_rate,
                       MILLI, "COMMA USAGE"),
       compare_feature(profile.exclamation_rate, features.exclamation_rate,
                       MILLI \div 2, "EXCLAMATION USAGE"),
       compare_feature(profile.contraction_rate, features.contraction_rate,
                       MILLI, "CONTRACTION USAGE"),
       compare_feature(profile.formality_score, features.formality_score,
                       MILLI \div 5, "FORMALITY LEVEL"),
       compare_function_words(profile, features),
       IF features.urgency_count > 2
       THEN << (2 * ONE) \div 10, << << "URGENCY_SPIKE", features.urgency_count >> >> >>
       ELSE << 0, << >> >>,
       IF features.hedge_count > 3
       THEN << ONE \div 10, << << "HEDGING", features.hedge_count >> >> >>
       ELSE << 0, << >> >> >>

RECURSIVE concat_tags(_)
concat_tags(parts) ==
    IF parts = << >> THEN << >> ELSE Head(parts)[2] \o concat_tags(Tail(parts))

\* compare_to_profile; the keys a branch does not return are None (deviations,
\* read with .get(..., []), is then the empty list)
compare_to_profile(se, text, author) ==
    LET a == lower(author)
        features == extract_features(text)
    IN  IF a \notin DOMAIN se.profiles
        THEN [ author |-> a, has_profile |-> FALSE, similarity |-> ONE \div 2,
               message |-> "No style profile available",
               deviation_score |-> None, deviations |-> << >>, risk_level |-> NoneStr ]
        ELSE IF features.empty
        THEN [ author |-> a, has_profile |-> TRUE, similarity |-> ONE \div 2,
               message |-> "Text too short to analyze",
               deviation_score |-> None, deviations |-> << >>, risk_level |-> NoneStr ]
        ELSE LET ds == StyleDeviations(se.profiles[a], features)
                 deviation_score == SumSeq([i \in DOMAIN ds |-> ds[i][1]])
             IN  [ author |-> a, has_profile |-> TRUE,
                   similarity |-> Max2(0, ONE - deviation_score),
                   message |-> NoneStr,
                   deviation_score |-> deviation_score,
                   deviations |-> concat_tags(ds),
                   risk_level |-> style_risk_level(deviation_score) ]

-----------------------------------------------------------------------------
(* bec_scorer.py *)

\* a faulty variant of weights: the trust weight was raised and the others were
\* not renormalised
weights_not_renormalised ==
    [ trust |-> 4500, temporal |-> 3000, stylometry |-> 2500, payment |-> 1000 ]

\* self.weights, in ten-thousandths
weights == [ trust |-> 3500, temporal |-> 3000, stylometry |-> 2500, payment |-> 1000 ]

\* the fused score is an integer multiple of 1 / (ONE * ONE)
FULL == ONE * ONE

\* BECScorer.add_executive
scorer_add_executive(tg, email) == add_executive(tg, email)

\* train_on_email's effect on the stylometry engine
train_stylometry(se, email) ==
    IF TextData(email.body).chars > 100
    THEN add_sample(se, email.from_addr, email.body)
    ELSE se

\* train_on_email: the three engines after the call
train_on_email(eng, email) ==
    << add_interaction(eng[1], EmailInteraction(email)),
       add_email(eng[2], TrainEvent(email)),
       train_stylometry(eng[3], email) >>

\* the loop of finalize_training over sample_texts.keys()
RECURSIVE build_profiles(_, _)
build_profiles(se, authors) ==
    IF authors = << >> THEN se
    ELSE build_profiles(build_profile(se, Head(authors)), Tail(authors))

\* finalize_training: the three engines after the call
finalize_training(eng, clock) ==
    << propagate_trust(eng[1], clock),
       finalize_profiles(eng[2]),
       build_profiles(eng[3], SetToSeq(DOMAIN eng[3].sample_texts)) >>

\* a faulty variant of basic_trust_check: a relationship is weak below 0.3
basic_trust_check_weak_below_03(tg, email, clock) ==
    LET trust_score == get_trust_score(tg, email.from_addr)
        relationship ==
            calculate_relationship_strength(tg, email.from_addr, email.to_addr, clock)
    IN  [ trust_score |-> trust_score,
          relationship_strength |-> relationship,
          risk_score |-> IF trust_score > ONE \div 2 THEN 0 ELSE (ONE \div 2) - trust_score,
          risk_factors |->
              (IF trust_score < (3 * ONE) \div 10
               THEN << << "LOW_TRUST", Fmt2(trust_score) >> >> ELSE << >>)
              \o (IF relationship < (3 * ONE) \div 10
                  THEN << << "WEAK_RELATIONSHIP" >> >> ELSE << >>) ]

\* the trust_result of analyze_email for an email without a payment request
basic_trust_check(tg, email, clock) ==
    LET trust_score == get_trust_score(tg, email.from_addr)
        relationship ==
            calculate_relationship_strength(tg, email.from_addr, email.to_addr, clock)
    IN  [ trust_score |-> trust_score,
          relationship_strength |-> relationship,
          risk_score |-> IF trust_score > ONE \div 2 THEN 0 ELSE (ONE \div 2) - trust_score,
          risk_factors |->
              (IF trust_score < (3 * ONE) \div 10
               THEN << << "LOW_TRUST", Fmt2(trust_score) >> >> ELSE << >>)
              \o (IF relationship < (2 * ONE) \div 10
                  THEN << << "WEAK_RELATIONSHIP" >> >> ELSE << >>) ]

\* a faulty variant of payment_indicators: an amount of exactly 50000 counts as
\* high value
payment_indicators_from_50000(email) ==
    LET urgency_count ==
            Cardinality(TextData(email.subject).urgency_keywords
                        \cup TextData(email.body).urgency_keywords)
        secrecy == TextData(email.subject).secrecy_keywords
                   \cup TextData(email.body).secrecy_keywords
        base == (2 * ONE) \div 10
        p1 == IF email.amount_requested >= 50000
              THEN << (3 * ONE) \div 10, << << "HIGH_VALUE", email.amount_requested >> >> >>
              ELSE IF email.amount_requested > 10000
              THEN << ONE \div 10, << >> >>
              ELSE << 0, << >> >>
        p2 == IF urgency_count >= 2
              THEN << (2 * ONE) \div 10, << << "URGENCY_PRESSURE", urgency_count >> >> >>
              ELSE << 0, << >> >>
        p3 == IF secrecy # {}
              THEN << (2 * ONE) \div 10, << << "SECRECY_REQUEST" >> >> >>
              ELSE << 0, << >> >>
    IN  IF email.has_payment_request
        THEN << base + p1[1] + p2[1] + p3[1], p1[2] \o p2[2] \o p3[2] >>
        ELSE << 0, << >> >>

\* component 4 of analyze_email: << payment_risk, tags >>
payment_indicators(email) ==
    LET urgency_count ==
            Cardinality(TextData(email.subject).urgency_keywords
                        \cup TextData(email.body).urgency_keywords)
        secrecy == TextData(email.subject).secrecy_keywords
                   \cup TextData(email.body).secrecy_keywords
        base == (2 * ONE) \div 10
        p1 == IF email.amount_requested > 50000
              THEN << (3 * ONE) \div 10, << << "HIGH_VALUE", email.amount_requested >> >> >>
              ELSE IF email.amount_requested > 10000
              THEN << ONE \div 10, << >> >>
              ELSE << 0, << >> >>
        p2 == IF urgency_count >= 2
              THEN << (2 * ONE) \div 10, << << "URGENCY_PRESSURE", urgency_count >> >> >>
              ELSE << 0, << >> >>
        p3 == IF secrecy # {}
              THEN << (2 * ONE) \div 10, << << "SECRECY_REQUEST" >> >> >>
              ELSE << 0, << >> >>
    IN  IF email.has_payment_request
        THEN << base + p1[1] + p2[1] + p3[1], p1[2] \o p2[2] \o p3[2] >>
        ELSE << 0, << >> >>

\* a faulty variant of risk_level_of: the CRITICAL threshold is read as 0.8
risk_level_of_shifted(overall_risk) ==
    IF overall_risk >= (8 * FULL) \div 10 THEN << "CRITICAL", "BLOCK" >>
    ELSE IF overall_risk >= (5 * FULL) \div 10 THEN << "HIGH", "HOLD" >>
    ELSE IF overall_risk >= (3 * FULL) \div 10 THEN << "MEDIUM", "REVIEW" >>
    ELSE << "LOW", "PROCEED" >>

\* the level and the recommendation (its text up to the colon) of analyze_email
risk_level_of(overall_risk) ==
    IF overall_risk >= (7 * FULL) \div 10 THEN << "CRITICAL", "BLOCK" >>
    ELSE IF overall_risk >= (5 * FULL) \div 10 THEN << "HIGH", "HOLD" >>
    ELSE IF overall_risk >= (3 * FULL) \div 10 THEN << "MEDIUM", "REVIEW" >>
    ELSE << "LOW", "PROCEED" >>

\* components 1 to 4 of analyze_email: what the three engines and the payment
\* heuristic return for the email
signals(eng, email, clock) ==
    [ trust_result |->
          IF email.has_payment_request
          THEN analyze_payment_request(eng[1], email.from_addr, email.to_addr,
                                       email.amount_requested, clock)
          ELSE basic_trust_check(eng[1], email, clock),
      temporal_result |-> temporal_analyze_email(eng[2], AnalyzeEvent(email)),
      stylometry_result |-> compare_to_profile(eng[3], email.body, email.from_addr),
      payment |-> payment_indicators(email) ]

\* the combined score of analyze_email and the BECAnalysisResult it returns
\* (payment_risk, a local of the call, is kept beside the result's fields)
fuse(sig) ==
    LET trust_risk == sig.trust_result.risk_score
        temporal_risk == sig.temporal_result.anomaly_score
        stylometry_risk == ONE - sig.stylometry_result.similarity
        payment_risk == sig.payment[1]
        overall == weights.trust * trust_risk + weights.temporal * temporal_risk
                   + weights.stylometry * stylometry_risk + weights.payment * payment_risk
        overall_risk == Max2(0, Min2(FULL, overall))
        level == risk_level_of(overall_risk)
    IN  [ kind |-> "BECAnalysisResult",
          overall_risk_score |-> overall_risk,
          risk_level |-> level[1],
          recommendation |-> level[2],
          trust_score |-> trust_risk,
          temporal_score |-> temporal_risk,
          stylometry_score |-> stylometry_risk,
          payment_risk |-> payment_risk,
          trust_findings |-> sig.trust_result,
          temporal_findings |-> sig.temporal_result,
          stylometry_findings |-> sig.stylometry_result,
          all_risk_factors |-> sig.trust_result.risk_factors
                               \o sig.temporal_result.anomalies
                               \o sig.stylometry_result.deviations \o sig.payment[2] ]

\* analyze_email on a trained scorer: each engine is consulted once
analysis_result(eng, email, clock) ==
    CHOOSE r \in { fuse(sig) : sig \in { signals(eng, email, clock) } } : TRUE

\* analyze_email: what the call returns or raises
analyze_email(eng, trained, email, clock) ==
    IF ~trained THEN [ kind |-> "RuntimeError" ]
    ELSE analysis_result(eng, email, clock)

-----------------------------------------------------------------------------
(* demo_training.py *)

\* training_emails of load_demo_training, read when the clock shows clock
DemoEmail(from_addr, subject, body, days_ago, tz, clock) ==
    [ from_addr |-> from_addr, to_addr |-> "bbrown@cyrenity.com",
      subject |-> subject, body |-> body,
      timestamp |-> clock - days_ago * MinutesPerDay,
      timezone_offset |-> tz, has_payment_request |-> FALSE,
      amount_requested |-> 0, message_id |-> "", in_reply_to |-> "" ]

training_emails(clock) ==
    << DemoEmail("cfo@cyrenity.com", DemoSubject1, DemoBody1, 30, -360, clock),
       DemoEmail("cfo@cyrenity.com", DemoSubject2, DemoBody2, 15, -360, clock),
       DemoEmail("cfo@cyrenity.com", DemoSubject3, DemoBody3, 7, -360, clock),
       DemoEmail("vendor1@trustedvendor.com", DemoSubject4, DemoBody4, 20, -300, clock),
       DemoEmail("partner@lawfirm.com", DemoSubject5, DemoBody5, 10, -300, clock),
       DemoEmail("accounting@cyrenity.com", DemoSubject6, DemoBody6, 5, -360, clock) >>

\* for email in emails: scorer.train_on_email(email)
RECURSIVE train_all(_, _)
train_all(eng, emails) ==
    IF emails = << >> THEN eng
    ELSE train_all(train_on_email(eng, Head(emails)), Tail(emails))

\* load_demo_training: the three engines after the call (it then sets is_trained)
load_demo_training(eng, clock) == train_all(eng, training_emails(clock))

-----------------------------------------------------------------------------
(* The inputs of the model *)

\* the historical corpus a scorer may already hold when the model starts
CorpusLen == 19

\* how many of the corpus emails have a body of more than 100 characters
CorpusLong == 9

At(day, hour, minute) == day * MinutesPerDay + hour * 60 + minute

\* the i-th corpus email: the vendor writes on working days, between 9:00 and
\* 15:00, from UTC-5; the first is the head of a thread the others answer
CorpusEmail(i) ==
    [ from_addr |-> "vendor1@trustedvendor.com", to_addr |-> "bbrown@cyrenity.com",
      subject |-> SubjectPlain,
      body |-> IF i <= CorpusLong THEN BodyFormal ELSE BodyShort,
      timestamp |-> At((i - 1) + 2 * ((i - 1) \div 5), 9 + 2 * ((i - 1) % 4), 0),
      timezone_offset |-> -300, has_payment_request |-> FALSE,
      amount_requested |-> 0, message_id |-> IF i = 1 THEN "m1" ELSE "m",
      in_reply_to |-> IF i \in {2, 3} THEN "m1" ELSE "" ]

Corpus(n) == [i \in 1..n |-> CorpusEmail(i)]

\* what the organisation wrote back: an answer in the thread, and a note of the CFO
CorpusReplies ==
    << [ from_addr |-> "bbrown@cyrenity.com", to_addr |-> "vendor1@trustedvendor.com",
         subject |-> SubjectPlain, body |-> BodyShort, timestamp |-> At(1, 11, 45),
         timezone_offset |-> -360, has_payment_request |-> FALSE,
         amount_requested |-> 0, message_id |-> "r1", in_reply_to |-> "m1" ],
       [ from_addr |-> "cfo@cyrenity.com", to_addr |-> "vendor1@trustedvendor.com",
         subject |-> SubjectPlain, body |-> BodyShort, timestamp |-> At(2, 15, 0),
         timezone_offset |-> -360, has_payment_request |-> FALSE,
         amount_requested |-> 0, message_id |-> "r2", in_reply_to |-> "" ] >>

\* the monthly figures accounting sends: MinSamples emails whose body is a table
\* of numbers, more than 100 characters without a word
CorpusTables ==
    [ i \in 1..MinSamples |->
        [ from_addr |-> "accounting@cyrenity.com", to_addr |-> "bbrown@cyrenity.com",
          subject |-> SubjectPlain, body |-> BodyTable,
          timestamp |-> At(i, 16, 0), timezone_offset |-> -360,
          has_payment_request |-> FALSE, amount_requested |-> 0,
          message_id |-> "t", in_reply_to |-> "" ] ]

\* the values datetime.now() takes
Now0 == At(30, 12, 0)

Clocks == { Now0, Now0 + 120 * MinutesPerDay }

\* the emails train_on_email is called with
TrainEmails ==
    { [ from_addr |-> "vendor1@trustedvendor.com", to_addr |-> "bbrown@cyrenity.com",
        subject |-> SubjectPlain, body |-> BodyFormal, timestamp |-> At(25, 11, 0),
        timezone_offset |-> -300, has_payment_request |-> FALSE,
        amount_requested |-> 0, message_id |-> "m20", in_reply_to |-> "m1" ],
      [ from_addr |-> "Vendor1@TrustedVendor.com", to_addr |-> "bbrown@cyrenity.com",
        subject |-> SubjectPlain, body |-> BodyShort, timestamp |-> At(25, 11, 30),
        timezone_offset |-> -300, has_payment_request |-> FALSE,
        amount_requested |-> 0, message_id |-> "m21", in_reply_to |-> "m1" ],
      [ from_addr |-> "partner@lawfirm.com", to_addr |-> "vendor1@trustedvendor.com",
        subject |-> SubjectPlain, body |-> BodyFormal, timestamp |-> At(3, 9, 0),
        timezone_offset |-> 330, has_payment_request |-> TRUE,
        amount_requested |-> 5000, message_id |-> "m24", in_reply_to |-> "m1" ] }

\* the addresses add_executive is called with
ExecutiveInputs == { "partner@lawfirm.com" }

\* an email to score, sent to bbrown
Incoming(from_addr, body, timestamp, timezone_offset, amount) ==
    [ from_addr |-> from_addr, to_addr |-> "bbrown@cyrenity.com",
      subject |-> IF body = BodyUrgent THEN SubjectUrgent ELSE SubjectPlain,
      body |-> body, timestamp |-> timestamp, timezone_offset |-> timezone_offset,
      has_payment_request |-> amount > 0, amount_requested |-> amount,
      message_id |-> "q", in_reply_to |-> "" ]

\* the emails analyze_email is called with: the vendor at an unusual hour and
\* from UTC at a usual one, the law firm's urgent email that names an amount and
\* requests no payment, a look-alike of the CFO with a plain email, with an urgent
\* request and with a request for exactly 50000, and bbrown's address asking the
\* vendor for a payment
AnalyzeEmails ==
    { Incoming("Vendor1@TrustedVendor.com", BodyUrgent, At(27, 3, 15), 330, 75000),
      Incoming("Vendor1@TrustedVendor.com", BodyFormal, At(29, 11, 0), 0, 0),
      [ Incoming("partner@lawfirm.com", BodyUrgent, At(27, 3, 15), 330, 75000)
          EXCEPT !.has_payment_request = FALSE ],
      Incoming("cfo@cyrenlty.com", BodyFormal, At(29, 11, 0), -300, 0),
      Incoming("cfo@cyrenlty.com", BodyUrgent, At(27, 3, 15), 330, 75000),
      Incoming("cfo@cyrenlty.com", BodyUrgent, At(27, 3, 15), 330, 50000),
      [ Incoming("bbrown@cyrenity.com", BodyFormal, At(29, 11, 0), -360, 5000)
          EXCEPT !.to_addr = "vendor1@trustedvendor.com" ] }

-----------------------------------------------------------------------------
(* The scorer as a state machine *)

\* finalize_training calls explored
MaxFinalize == 2

\* the callers that may run analyze_email at the same time
MaxCallers == 2

Callers == 1..MaxCallers

NoResult == [ kind |-> "None" ]

NoEmail == [ message_id |-> "None" ]

\* a caller that has not called analyze_email: the email of the call, the locals
\* trust_result, temporal_result and stylometry_result, and what the call returned;
\* overlapped (history) records that another call was running during a step of it
IdleCall ==
    [ pc |-> "idle", email |-> NoEmail, trust_result |-> NoResult,
      temporal_result |-> NoResult, stylometry_result |-> NoResult,
      result |-> NoResult, overlapped |-> FALSE ]

EmptyEngine == << TrustGraphInit, TemporalAnalyzerInit, StylometryEngineInit >>

\* the engines after train_on_email was called with the first 7 emails of the
\* corpus, with the first 14, with every email of the vendor and the replies,
\* and with the tables of accounting too
CorpusEngine7 == train_all(EmptyEngine, SubSeq(Corpus(CorpusLen), 1, 7))

CorpusEngine14 == train_all(CorpusEngine7, SubSeq(Corpus(CorpusLen), 8, 14))

CorpusEngineVendor ==
    train_all(train_all(CorpusEngine14, SubSeq(Corpus(CorpusLen), 15, CorpusLen)),
              CorpusReplies)

CorpusEngine == train_all(CorpusEngineVendor, CorpusTables)

\* the emails train_on_email was called with to build CorpusEngine
CorpusEmails == Corpus(CorpusLen) \o CorpusReplies \o CorpusTables

\* BECScorer.__init__, followed by the training that loaded the corpus (none,
\* or the CorpusLen emails of Corpus)
Init ==
    /\ \E start \in { << EmptyEngine, << >> >>, << CorpusEngine, CorpusEmails >> } :
          /\ trust_graph = start[1][1]
          /\ temporal_analyzer = start[1][2]
          /\ stylometry_engine = start[1][3]
          /\ trained_emails = start[2]
    /\ is_trained = FALSE
    /\ now = Now0
    /\ result = NoResult
    /\ analyzed = NoEmail
    /\ last_call = "__init__"
    /\ n_finalize = 0
    /\ n_train = 0
    /\ calls = [c \in Callers |-> IdleCall]

SetEngine(eng) ==
    /\ trust_graph' = eng[1]
    /\ temporal_analyzer' = eng[2]
    /\ stylometry_engine' = eng[3]

AddExecutive(email) ==
    /\ Len(trust_graph.executives) < MaxExec
    /\ trust_graph' = scorer_add_executive(trust_graph, email)
    /\ result' = NoResult
    /\ analyzed' = NoEmail
    /\ last_call' = "add_executive"
    /\ UNCHANGED << temporal_analyzer, stylometry_engine, is_trained, now,
                    n_finalize, n_train, trained_emails, calls >>

TrainOnEmail(email) ==
    /\ n_train < MaxTrain
    /\ SetEngine(train_on_email(engine, email))
    /\ n_train' = n_train + 1
    /\ result' = NoResult
    /\ analyzed' = NoEmail
    /\ last_call' = "train_on_email"
    /\ trained_emails' = Append(trained_emails, email)
    /\ UNCHANGED << is_trained, now, n_finalize, calls >>

LoadDemoTraining ==
    /\ n_train < MaxTrain
    /\ SetEngine(load_demo_training(engine, now))
    /\ is_trained' = TRUE
    /\ n_train' = n_train + 1
    /\ result' = NoResult
    /\ analyzed' = NoEmail
    /\ last_call' = "load_demo_training"
    /\ trained_emails' = trained_emails \o training_emails(now)
    /\ UNCHANGED << now, n_finalize, calls >>

FinalizeTraining ==
    /\ n_finalize < MaxFinalize
    /\ SetEngine(finalize_training(engine, now))
    /\ is_trained' = TRUE
    /\ n_finalize' = n_finalize + 1
    /\ result' = NoResult
    /\ analyzed' = NoEmail
    /\ last_call' = "finalize_training"
    /\ UNCHANGED << now, n_train, trained_emails, calls >>

\* a faulty variant of AnalyzeEmail: the edge list of the pair is read by indexing the
\* defaultdict, which creates the missing key
AnalyzeEmail_indexing(email) ==
    LET key == << lower(email.from_addr), lower(email.to_addr) >>
    IN  /\ result' = analyze_email(engine, is_trained, email, now)
        /\ analyzed' = email
        /\ last_call' = "analyze_email"
        /\ trust_graph' =
               IF key \in DOMAIN trust_graph.edges THEN trust_graph
               ELSE [trust_graph EXCEPT !.edges = (key :> << >>) @@ @]
        /\ UNCHANGED << temporal_analyzer, stylometry_engine, is_trained, now,
                        n_finalize, n_train, trained_emails, calls >>

AnalyzeEmail(email) ==
    /\ result' = analyze_email(engine, is_trained, email, now)
    /\ analyzed' = email
    /\ last_call' = "analyze_email"
    /\ UNCHANGED << trust_graph, temporal_analyzer, stylometry_engine, is_trained,
                    now, n_finalize, n_train, trained_emails, calls >>

\* time passes
Tick ==
    /\ \E t \in Clocks : t > now /\ now' = t
    /\ result' = NoResult
    /\ analyzed' = NoEmail
    /\ last_call' = "tick"
    /\ UNCHANGED << trust_graph, temporal_analyzer, stylometry_engine, is_trained,
                    n_finalize, n_train, trained_emails, calls >>

Next ==
    \/ \E email \in ExecutiveInputs : AddExecutive(email)
    \/ \E email \in TrainEmails : TrainOnEmail(email)
    \/ LoadDemoTraining
    \/ FinalizeTraining
    \/ \E email \in AnalyzeEmails : AnalyzeEmail(email)
    \/ Tick

Spec == Init /\ [][Next]_vars

-----------------------------------------------------------------------------
(* Several callers inside analyze_email at once, on a trained scorer *)

\* the emails the concurrent callers score
ConcurrentEmails ==
    { Incoming("Vendor1@TrustedVendor.com", BodyUrgent, At(27, 3, 15), 330, 75000),
      Incoming("Vendor1@TrustedVendor.com", BodyFormal, At(29, 11, 0), 0, 0),
      Incoming("cfo@cyrenlty.com", BodyUrgent, At(27, 3, 15), 330, 50000) }

\* the scorers the callers share: finalize_training was called after no training,
\* after the corpus, or after the corpus and one more email
ReadyStarts ==
    { << finalize_training(EmptyEngine, Now0), << >>, 0 >>,
      << finalize_training(CorpusEngine, Now0), CorpusEmails, 0 >> }
    \cup { << finalize_training(train_on_email(CorpusEngine, e), Now0),
              Append(CorpusEmails, e), 1 >> : e \in TrainEmails }

InitConcurrent ==
    /\ \E start \in ReadyStarts :
          /\ trust_graph = start[1][1]
          /\ temporal_analyzer = start[1][2]
          /\ stylometry_engine = start[1][3]
          /\ trained_emails = start[2]
          /\ n_train = start[3]
    /\ is_trained = TRUE
    /\ now = Now0
    /\ result = NoResult
    /\ analyzed = NoEmail
    /\ last_call = "finalize_training"
    /\ n_finalize = 1
    /\ calls = [c \in Callers |-> IdleCall]

\* the caller is inside analyze_email
InFlight(c) == calls[c].pc \notin { "idle", "done" }

\* the caller takes a step that leaves it as the record next
StepTo(c, next) ==
    calls' = [calls EXCEPT ![c] =
                 [next EXCEPT !.overlapped =
                      calls[c].overlapped \/ \E d \in Callers \ {c} : InFlight(d)]]

\* analyze_email is entered: the is_trained test
EnterAnalyzeEmail(c, email) ==
    /\ calls[c].pc = "idle"
    /\ IF is_trained
       THEN StepTo(c, [calls[c] EXCEPT !.pc = "trust", !.email = email])
       ELSE StepTo(c, [calls[c] EXCEPT !.pc = "done", !.email = email,
                                       !.result = [ kind |-> "RuntimeError" ]])
    /\ UNCHANGED << trust_graph, temporal_analyzer, stylometry_engine, is_trained,
                    now, result, analyzed, last_call, n_finalize, n_train,
                    trained_emails >>

\* a faulty variant of TrustStep: the edge list of the pair is read by indexing the
\* defaultdict, which creates the missing key
TrustStep_indexing(c) ==
    LET email == calls[c].email
        key == << lower(email.from_addr), lower(email.to_addr) >>
    IN  /\ calls[c].pc = "trust"
        /\ StepTo(c, [calls[c] EXCEPT
                         !.pc = "temporal",
                         !.trust_result = signals(engine, email, now).trust_result])
        /\ trust_graph' =
               IF key \in DOMAIN trust_graph.edges THEN trust_graph
               ELSE [trust_graph EXCEPT !.edges = (key :> << >>) @@ @]
        /\ UNCHANGED << temporal_analyzer, stylometry_engine, is_trained, now,
                        result, analyzed, last_call, n_finalize, n_train,
                        trained_emails >>

\* component 1: the trust graph is consulted
TrustStep(c) ==
    /\ calls[c].pc = "trust"
    /\ StepTo(c, [calls[c] EXCEPT
                     !.pc = "temporal",
                     !.trust_result =
                         IF calls[c].email.has_payment_request
                         THEN analyze_payment_request(
                                  trust_graph, calls[c].email.from_addr,
                                  calls[c].email.to_addr,
                                  calls[c].email.amount_requested, now)
                         ELSE basic_trust_check(trust_graph, calls[c].email, now)])
    /\ UNCHANGED << trust_graph, temporal_analyzer, stylometry_engine, is_trained,
                    now, result, analyzed, last_call, n_finalize, n_train,
                    trained_emails >>

\* component 2: the temporal analyzer is consulted
TemporalStep(c) ==
    /\ calls[c].pc = "temporal"
    /\ StepTo(c, [calls[c] EXCEPT
                     !.pc = "stylometry",
                     !.temporal_result =
                         temporal_analyze_email(temporal_analyzer,
                                                AnalyzeEvent(calls[c].email))])
    /\ UNCHANGED << trust_graph, temporal_analyzer, stylometry_engine, is_trained,
                    now, result, analyzed, last_call, n_finalize, n_train,
                    trained_emails >>

\* component 3: the stylometry engine is consulted
StylometryStep(c) ==
    /\ calls[c].pc = "stylometry"
    /\ StepTo(c, [calls[c] EXCEPT
                     !.pc = "payment",
                     !.stylometry_result =
                         compare_to_profile(stylometry_engine, calls[c].email.body,
                                            calls[c].email.from_addr)])
    /\ UNCHANGED << trust_graph, temporal_analyzer, stylometry_engine, is_trained,
                    now, result, analyzed, last_call, n_finalize, n_train,
                    trained_emails >>

\* component 4 and the combined score: the call returns
ReturnStep(c) ==
    /\ calls[c].pc = "payment"
    /\ StepTo(c, [calls[c] EXCEPT
                     !.pc = "done",
                     !.result =
                         fuse([ trust_result |-> calls[c].trust_result,
                                temporal_result |-> calls[c].temporal_result,
                                stylometry_result |-> calls[c].stylometry_result,
                                payment |-> payment_indicators(calls[c].email) ])])
    /\ UNCHANGED << trust_graph, temporal_analyzer, stylometry_engine, is_trained,
                    now, result, analyzed, last_call, n_finalize, n_train,
                    trained_emails >>

NextConcurrent ==
    \/ \E c \in Callers, email \in ConcurrentEmails : EnterAnalyzeEmail(c, email)
    \/ \E c \in Callers : TrustStep(c)
    \/ \E c \in Callers : TemporalStep(c)
    \/ \E c \in Callers : StylometryStep(c)
    \/ \E c \in Callers : ReturnStep(c)

SpecConcurrent == InitConcurrent /\ [][NextConcurrent]_vars

-----------------------------------------------------------------------------
(* Properties *)

\* the scorer accepts analyze_email
Ready == is_trained

\* the last step was an analyze_email call that returned a BECAnalysisResult
Analyzed == last_call = "analyze_email" /\ result.kind = "BECAnalysisResult"

\* what a result tells the caller: the overall score, the level, the
\* recommendation, the three component scores and the factor tags
Verdict(r) ==
    [ overall_risk_score |-> r.overall_risk_score,
      risk_level |-> r.risk_level,
      recommendation |-> r.recommendation,
      trust_score |-> r.trust_score,
      temporal_score |-> r.temporal_score,
      stylometry_score |-> r.stylometry_score,
      all_risk_factors |-> r.all_risk_factors ]

InUnit(x) == 0 <= x /\ x <= ONE

\* the names of the factor tags of a result
TagNames(r) == { r.all_risk_factors[i][1] : i \in DOMAIN r.all_risk_factors }

\* C1: while finalize_training has not completed, every analyze_email call
\* fails with the not-ready error and returns no verdict.
C1_AnalyzeBeforeFinalizeFails ==
    (last_call = "analyze_email" /\ n_finalize = 0) => result.kind = "RuntimeError"

\* C2: once finalize_training has completed, no call of train_on_email,
\* finalize_training or analyze_email changes the graph, the temporal profiles
\* and threads, or the style samples and profiles.
C2_ReadyStateIsImmutable ==
    [][(n_finalize > 0
        /\ last_call' \in {"train_on_email", "finalize_training", "analyze_email"})
       => engine' = engine]_vars

\* C3: analyze_email leaves the trust graph, the temporal analyzer and the
\* stylometry engine as they were, whatever the email and whether or not its
\* sender or its (from, to) pair is known.
C3_AnalyzeLeavesEngineUnchanged ==
    [][last_call' = "analyze_email" => engine' = engine]_vars

\* an analysis of a payment request from a sender the graph does not know has
\* returned, and the graph still knows neither the sender nor the pair
C3_UnknownSenderAnalyzed ==
    /\ Analyzed
    /\ Ready
    /\ analyzed.has_payment_request
    /\ lower(analyzed.from_addr) \notin DOMAIN trust_graph.nodes
    /\ << lower(analyzed.from_addr), lower(analyzed.to_addr) >>
           \notin DOMAIN trust_graph.edges
    /\ trust_graph.nodes # << >>

\* C4: the verdict of an analyze_email call (score, level, recommendation,
\* component scores, factor tags) is the one the same call returns at any other
\* wall-clock time, the engines and the email being the same.
C4_VerdictIndependentOfClock ==
    (Analyzed /\ Ready)
        => \A clock \in Clocks :
              Verdict(analysis_result(engine, analyzed, clock)) = Verdict(result)

\* an analysis has returned whose raw relationship strength is another one
\* when the call is made at another date
C4_ClockReachesFindings ==
    /\ Analyzed
    /\ Ready
    /\ \E clock \in Clocks :
          analysis_result(engine, analyzed, clock).trust_findings.relationship_strength
              # result.trust_findings.relationship_strength

\* C5: a finalize_training call that directly follows another, nothing having
\* been trained in between, leaves trust scores, histograms, response-time
\* lists, time zones, active hours and style profiles as the first call left
\* them.
C5_FinalizeIsIdempotent ==
    [][(last_call = "finalize_training" /\ last_call' = "finalize_training")
       => engine' = engine]_vars

\* C6: when propagate_trust has run, every node of the organization domain and
\* every node flagged executive has trust 1.0.
C6_InternalAndExecutivePinned ==
    last_call = "finalize_training"
        => \A a \in DOMAIN trust_graph.nodes :
              (trust_graph.nodes[a].is_internal \/ trust_graph.nodes[a].is_executive)
                  => trust_graph.nodes[a].trust_score = ONE

\* C7: every node's trust score lies in [0, 1], in every state and after each
\* of the passes of the propagate_trust call that has just run.
C7_TrustScoresInUnitInterval ==
    /\ \A a \in DOMAIN trust_graph.nodes : InUnit(trust_graph.nodes[a].trust_score)
    /\ last_call = "finalize_training"
          => \A k \in 0..Iterations :
                \A n \in { propagate_upto(trust_graph, now, k).nodes } :
                    \A a \in DOMAIN n : InUnit(n[a].trust_score)

\* propagate_trust has raised an external sender above the score it starts from
C7_TrustPropagated ==
    /\ last_call = "finalize_training"
    /\ \E a \in DOMAIN trust_graph.nodes :
          /\ ~trust_graph.nodes[a].is_internal
          /\ Cardinality(InboundKeys(trust_graph, a)) > 1
          /\ trust_graph.nodes[a].trust_score > ONE \div 10

\* C8: calculate_relationship_strength(a, b) = calculate_relationship_strength(b, a)
\* for every pair of addresses, every interaction history and every clock.
C8_RelationshipStrengthSymmetric ==
    \A a \in Addresses, b \in Addresses, clock \in Clocks :
        calculate_relationship_strength(trust_graph, a, b, clock)
            = calculate_relationship_strength(trust_graph, b, a, clock)

\* a pair with interactions in one direction only has a strength
C8_OneDirectionRecorded ==
    \E a \in Addresses, b \in Addresses :
        /\ last_call = "train_on_email"
        /\ edges_get(trust_graph, << lower(a), lower(b) >>) # << >>
        /\ edges_get(trust_graph, << lower(b), lower(a) >>) = << >>
        /\ calculate_relationship_strength(trust_graph, b, a, now) > 0

\* C9: the overall score of a verdict lies in [0, 1], as do its trust, temporal
\* and stylometry risks and the payment risk that went into it.
C9_ScoresInUnitInterval ==
    (Analyzed /\ Ready)
        => /\ 0 <= result.overall_risk_score
           /\ result.overall_risk_score <= FULL
           /\ InUnit(result.trust_score)
           /\ InUnit(result.temporal_score)
           /\ InUnit(result.stylometry_score)
           /\ InUnit(result.payment_risk)

\* a payment request was scored whose trust increments add up to more than 1
C9_TrustRiskClamped ==
    /\ Analyzed
    /\ Ready
    /\ analyzed.has_payment_request
    /\ result.trust_score = ONE
    /\ SumSeq([i \in 1..5 |-> PaymentFactors(trust_graph, analyzed.from_addr,
           analyzed.to_addr, analyzed.amount_requested, now)[i][1]]) > ONE

\* the levels, lowest first
LevelRank(level) ==
    CASE level = "LOW" -> 0
      [] level = "MEDIUM" -> 1
      [] level = "HIGH" -> 2
      [] level = "CRITICAL" -> 3

\* the level and recommendation the thresholds 0.7, 0.5 and 0.3 give a score
StepOf(score) ==
    IF 10 * (score \div ONE) >= 7 * ONE THEN << "CRITICAL", "BLOCK" >>
    ELSE IF 10 * (score \div ONE) >= 5 * ONE THEN << "HIGH", "HOLD" >>
    ELSE IF 10 * (score \div ONE) >= 3 * ONE THEN << "MEDIUM", "REVIEW" >>
    ELSE << "LOW", "PROCEED" >>

\* scores at, just below and just above each threshold, and the two ends
ScoreGrid ==
    { (t * FULL) \div 10 + d : t \in {3, 5, 7}, d \in {-1, 0, 1} } \cup { 0, FULL }

\* C10: the level and the recommendation of a verdict are those the thresholds
\* give its overall score (>= 0.7 CRITICAL/BLOCK, >= 0.5 HIGH/HOLD, >= 0.3
\* MEDIUM/REVIEW, else LOW/PROCEED), and a higher score never has a lower level.
C10_LevelIsStepOfScore ==
    /\ (Analyzed /\ Ready)
          => << result.risk_level, result.recommendation >>
                 = StepOf(result.overall_risk_score)
    /\ \A s1 \in ScoreGrid, s2 \in ScoreGrid :
          /\ risk_level_of(s1) = StepOf(s1)
          /\ s1 <= s2 => LevelRank(risk_level_of(s1)[1]) <= LevelRank(risk_level_of(s2)[1])

\* a verdict of the highest level was returned
C10_CriticalReturned ==
    /\ Analyzed
    /\ Ready
    /\ result.risk_level = "CRITICAL"
    /\ result.overall_risk_score < (8 * FULL) \div 10

\* C11: an email from a sender the training never saw, sent at 03:15, asking
\* for exactly 50000, from a time zone no baseline holds, with two urgency
\* keywords and a secrecy phrase, is scored 0.7 or more, CRITICAL, and its tags
\* name the unknown sender, the time zone, the urgency and the secrecy.
C11_LookalikeScenarioIsCritical ==
    ( /\ Analyzed
      /\ n_finalize > 0
      /\ lower(analyzed.from_addr) \notin DOMAIN trust_graph.nodes
      /\ hour_of(analyzed.timestamp) = 3
      /\ analyzed.timestamp % 60 = 15
      /\ analyzed.has_payment_request
      /\ analyzed.amount_requested = 50000
      /\ \A a \in DOMAIN temporal_analyzer.profiles :
             \A i \in DOMAIN temporal_analyzer.profiles[a].observed_timezones :
                temporal_analyzer.profiles[a].observed_timezones[i]
                    # analyzed.timezone_offset
      /\ Cardinality(TextData(analyzed.subject).urgency_keywords
                     \cup TextData(analyzed.body).urgency_keywords) >= 2
      /\ TextData(analyzed.body).secrecy_keywords # {} )
    => /\ result.overall_risk_score >= (7 * FULL) \div 10
       /\ result.risk_level = "CRITICAL"
       /\ { "UNKNOWN_SENDER", "TIMEZONE_MISMATCH", "URGENCY_PRESSURE",
            "SECRECY_REQUEST" } \subseteq TagNames(result)

\* the sender of the analysed email has no node, no temporal baseline, no style
\* profile
NoNode == lower(analyzed.from_addr) \notin DOMAIN trust_graph.nodes

NoBaseline ==
    \/ lower(analyzed.from_addr) \notin DOMAIN temporal_analyzer.profiles
    \/ temporal_analyzer.profiles[lower(analyzed.from_addr)].total_emails < MinHistory

NoProfile == lower(analyzed.from_addr) \notin DOMAIN stylometry_engine.profiles

\* C12: when the sender of an analysed email has no baseline in an engine (no
\* node in the graph, no temporal profile or one of fewer than 20 emails, no
\* style profile), that engine's component score is 0.5 and the factor tags
\* hold a tag of that engine, with and without a payment request.
C12_MissingBaselineIsNeutralAndTagged ==
    (Analyzed /\ n_finalize > 0)
    => /\ NoNode => /\ result.trust_score = ONE \div 2
                    /\ result.trust_findings.risk_factors # << >>
       /\ NoBaseline => /\ result.temporal_score = ONE \div 2
                        /\ "INSUFFICIENT_HISTORY" \in TagNames(result)
       /\ NoProfile => /\ result.stylometry_score = ONE \div 2
                       /\ result.stylometry_findings.deviations # << >>

\* the emails recorded for the sender of the analysed email (0 without a profile)
SenderEmails ==
    IF lower(analyzed.from_addr) \in DOMAIN temporal_analyzer.profiles
    THEN temporal_analyzer.profiles[lower(analyzed.from_addr)].total_emails
    ELSE 0

\* C13: the temporal analysis of a sender with no profile or fewer than 20
\* recorded emails returns 0.5 with the one factor INSUFFICIENT_HISTORY and no
\* hour, day, time-zone or late-night increment; a sender with 20 or more
\* recorded emails is assessed against the baseline.
C13_NoBaselineBelowTwentyEmails ==
    (Analyzed /\ Ready)
    => LET findings == result.temporal_findings
       IN  IF SenderEmails < 20
           THEN /\ ~findings.has_baseline
                /\ findings.anomaly_score = ONE \div 2
                /\ findings.anomalies = << << "INSUFFICIENT_HISTORY" >> >>
           ELSE /\ findings.has_baseline
                /\ \A i \in DOMAIN findings.anomalies :
                       findings.anomalies[i][1]
                           \in { "UNUSUAL_HOUR", "DEAD_ZONE", "UNUSUAL_DAY",
                                 "TIMEZONE_MISMATCH", "MAJOR_TZ_SHIFT", "LATE_NIGHT" }
                /\ (findings.anomalies = << >>) = (findings.anomaly_score = 0)

\* a sender with exactly 20 recorded emails was assessed against the baseline
C13_TwentyEmailsAssessed ==
    /\ Analyzed
    /\ Ready
    /\ SenderEmails = 20
    /\ result.temporal_findings.has_baseline

\* the training emails of an author (a lower-cased address) whose body has more
\* than 100 characters, and those of them whose body holds a word
LongBodies(author) ==
    { i \in DOMAIN trained_emails :
        /\ lower(trained_emails[i].from_addr) = author
        /\ TextData(trained_emails[i].body).chars > 100 }

WordBodies(author) ==
    { i \in LongBodies(author) : TextData(trained_emails[i].body).word_count > 0 }

Authors ==
    { lower(trained_emails[i].from_addr) : i \in DOMAIN trained_emails }
        \cup DOMAIN stylometry_engine.profiles

\* compare_to_profile reported that the sender has no profile: similarity 0.5
\* and no deviation tag
NoProfileReported ==
    /\ ~result.stylometry_findings.has_profile
    /\ result.stylometry_findings.message = "No style profile available"
    /\ result.stylometry_findings.similarity = ONE \div 2
    /\ result.stylometry_findings.deviations = << >>

\* C14 as stated: after finalize_training an author has a style profile if and
\* only if at least 10 training emails of that author (case-insensitively) had
\* a body of more than 100 characters; and for a sender without a profile
\* compare_to_profile reports no profile, similarity 0.5 and no deviation tag.
C14_ProfileIffTenLongBodies ==
    /\ last_call = "finalize_training"
          => \A a \in Authors :
                (a \in DOMAIN stylometry_engine.profiles)
                    <=> Cardinality(LongBodies(a)) >= 10
    /\ (Analyzed /\ Ready /\ NoProfile) => NoProfileReported

\* C14 amended: after finalize_training an author has a style profile if and
\* only if at least 10 training emails of that author (case-insensitively) had
\* a body of more than 100 characters and at least one of those bodies holds a
\* word; and for a sender without a profile compare_to_profile reports no
\* profile, similarity 0.5 and no deviation tag.
C14_ProfileIffTenLongBodiesOneWithWords ==
    /\ last_call = "finalize_training"
          => \A a \in Authors :
                (a \in DOMAIN stylometry_engine.profiles)
                    <=> /\ Cardinality(LongBodies(a)) >= 10
                        /\ WordBodies(a) # {}
    /\ (Analyzed /\ Ready /\ NoProfile) => NoProfileReported

\* finalize_training has run over an author with 10 long bodies without a word,
\* who has no profile, and over an author who has one
C14_WordlessAuthorWithoutProfile ==
    /\ last_call = "finalize_training"
    /\ \E a \in Authors :
          /\ Cardinality(LongBodies(a)) >= 10
          /\ WordBodies(a) = {}
          /\ a \notin DOMAIN stylometry_engine.profiles
    /\ stylometry_engine.profiles # << >>

\* the training emails an address (lower-cased) sent or received, and the
\* payment requests it sent
PriorInteractions(a) ==
    { i \in DOMAIN trained_emails :
        \/ lower(trained_emails[i].from_addr) = a
        \/ lower(trained_emails[i].to_addr) = a }

PriorPaymentRequests(a) ==
    { i \in DOMAIN trained_emails :
        /\ lower(trained_emails[i].from_addr) = a
        /\ trained_emails[i].has_payment_request }

\* the increments C15 lists for the analysed payment request, each with its tag
\* (a sender is unknown when no training email names it; the first-ever
\* payment request is that of a known sender)
StatedIncrements ==
    LET a == lower(analyzed.from_addr)
        known == PriorInteractions(a) # {} \/ a \in DOMAIN trust_graph.nodes
        trust == get_trust_score(trust_graph, a)
        strength == calculate_relationship_strength(trust_graph, a,
                                                    analyzed.to_addr, now)
    IN  (IF ~known THEN << << 4000, "UNKNOWN_SENDER" >> >>
         ELSE IF Cardinality(PriorInteractions(a)) < 5
         THEN << << 2000, "LOW_HISTORY" >> >> ELSE << >>)
        \o (IF 10 * trust < 3 * ONE THEN << << 3000, "LOW_TRUST" >> >>
            ELSE IF 10 * trust < 5 * ONE THEN << << 1000, "MEDIUM_TRUST" >> >>
            ELSE << >>)
        \o (IF 10 * strength < 2 * ONE THEN << << 2500, "WEAK_RELATIONSHIP" >> >>
            ELSE << >>)
        \o (IF known /\ PriorPaymentRequests(a) = {}
            THEN << << 1500, "FIRST_PAYMENT_REQUEST" >> >> ELSE << >>)
        \o (IF analyzed.amount_requested > 10000 /\ 10 * trust < 5 * ONE
            THEN << << 2000, "HIGH_VALUE_LOW_TRUST" >> >> ELSE << >>)

\* the label of a trust risk score at the thresholds 0.7 / 0.5 / 0.3
StatedLabel(score) ==
    IF 10 * score >= 7 * ONE THEN "CRITICAL"
    ELSE IF 10 * score >= 5 * ONE THEN "HIGH"
    ELSE IF 10 * score >= 3 * ONE THEN "MEDIUM"
    ELSE "LOW"

\* C15: analyze_payment_request returns min(1.0, sum of the increments): 0.4
\* for an unknown sender, else 0.2 for a sender with fewer than 5 prior
\* interactions; 0.3 for trust < 0.3, else 0.1 for trust < 0.5; 0.25 for a
\* relationship strength < 0.2; 0.15 for the sender's first payment request; 0.2
\* for an amount > 10000 with trust < 0.5; the label is that of the returned
\* score at 0.7 / 0.5 / 0.3, and the factor list has one tag per increment.
C15_PaymentRiskIsSumOfIncrements ==
    (Analyzed /\ n_finalize > 0 /\ analyzed.has_payment_request)
    => LET inc == StatedIncrements
           findings == result.trust_findings
       IN  /\ findings.risk_score = Min2(ONE, SumSeq([i \in DOMAIN inc |-> inc[i][1]]))
           /\ findings.risk_level = StatedLabel(findings.risk_score)
           /\ [i \in DOMAIN findings.risk_factors |-> findings.risk_factors[i][1]]
                  = [i \in DOMAIN inc |-> inc[i][2]]

\* the signals of the last result, with the trust risk replaced by trust_risk
WithTrustRisk(trust_risk) ==
    [ trust_result |-> [result.trust_findings EXCEPT !.risk_score = trust_risk],
      temporal_result |-> result.temporal_findings,
      stylometry_result |-> result.stylometry_findings,
      payment |-> << result.payment_risk, << >> >> ]

\* trust risks from 0 to 1 in steps of 0.125
TrustRiskGrid == { (k * ONE) \div 8 : k \in 0..8 }

\* r1 is scored no higher than r2, in score and in level
NotAbove(r1, r2) ==
    /\ r1.overall_risk_score <= r2.overall_risk_score
    /\ LevelRank(r1.risk_level) <= LevelRank(r2.risk_level)

\* C16: the weights are 0.35, 0.30, 0.25 and 0.10 and sum to 1.0; of two
\* analysed emails with equal temporal, stylometry and payment risks, the one
\* with the higher trust risk has no lower overall score and no lower level.
C16_WeightsSumToOneAndTrustMonotone ==
    /\ weights = [ trust |-> (35 * ONE) \div 100, temporal |-> (30 * ONE) \div 100,
                   stylometry |-> (25 * ONE) \div 100, payment |-> (10 * ONE) \div 100 ]
    /\ weights.trust + weights.temporal + weights.stylometry + weights.payment = ONE
    /\ (Analyzed /\ Ready)
          => /\ \A r2 \in { analysis_result(engine, e2, now) : e2 \in AnalyzeEmails } :
                   ( /\ r2.temporal_score = result.temporal_score
                     /\ r2.stylometry_score = result.stylometry_score
                     /\ r2.payment_risk = result.payment_risk
                     /\ result.trust_score <= r2.trust_score )
                   => NotAbove(result, r2)
             /\ \A t1, t2 \in TrustRiskGrid :
                   t1 <= t2 => NotAbove(fuse(WithTrustRisk(t1)), fuse(WithTrustRisk(t2)))

\* an analysed email, and another email that differs from it in trust risk only
\* and is scored higher
C16_HigherTrustRiskScoredHigher ==
    /\ Analyzed
    /\ Ready
    /\ \E r2 \in { analysis_result(engine, e2, now) : e2 \in AnalyzeEmails } :
          /\ r2.temporal_score = result.temporal_score
          /\ r2.stylometry_score = result.stylometry_score
          /\ r2.payment_risk = result.payment_risk
          /\ result.trust_score < r2.trust_score
          /\ result.overall_risk_score < r2.overall_risk_score
          /\ LevelRank(result.risk_level) < LevelRank(r2.risk_level)

\* C17: under every interleaving of the steps of concurrent analyze_email calls on
\* a trained scorer, a call that has returned holds exactly the result the call
\* returns when it runs alone on that scorer, and no step changes the engines
C17_ConcurrentCallsAsAlone ==
    /\ [](\A c \in Callers :
            calls[c].pc = "done" =>
                calls[c].result = analyze_email(engine, is_trained, calls[c].email, now))
    /\ [][engine' = engine]_vars

\* C17 witness: two calls on different emails have both returned, and each ran
\* while the other was inside analyze_email
C17_TwoOverlappingCallsReturned ==
    \E c \in Callers, d \in Callers :
        /\ c # d
        /\ calls[c].pc = "done" /\ calls[d].pc = "done"
        /\ calls[c].overlapped /\ calls[d].overlapped
        /\ calls[c].email # calls[d].email
        /\ calls[c].result.kind = "BECAnalysisResult"
        /\ calls[c].result # calls[d].result

\* the distance in minutes between the analysed email's offset and the primary
\* time zone of its sender's profile
TzDiff ==
    Abs(analyzed.timezone_offset
        - temporal_analyzer.profiles[lower(analyzed.from_addr)].primary_timezone)

\* the score the claim gives each temporal tag
TemporalIncrement(tag) ==
    CASE tag = "UNUSUAL_HOUR" -> 3000
      [] tag = "DEAD_ZONE" -> 2000
      [] tag = "UNUSUAL_DAY" -> 1500
      [] tag = "TIMEZONE_MISMATCH" -> 2500
      [] tag = "MAJOR_TZ_SHIFT" -> 2000
      [] tag = "LATE_NIGHT" -> 2000
      [] OTHER -> 0

\* C18: for a sender with a baseline, the temporal findings carry the
\* timezone-mismatch tag exactly when the email's offset is more than 60 minutes
\* from the profile's primary time zone and the major-shift tag exactly when it is
\* more than 300 minutes away, whatever the two offsets are (0 included), and the
\* score is the sum of the increments of the tags raised, at most 1
C18_TimezoneCheckedForEveryOffset ==
    (Analyzed /\ n_finalize > 0 /\ ~NoBaseline)
    => LET findings == result.temporal_findings
           tags == { findings.anomalies[i][1] : i \in DOMAIN findings.anomalies }
       IN  /\ ("TIMEZONE_MISMATCH" \in tags) = (TzDiff > 60)
           /\ ("MAJOR_TZ_SHIFT" \in tags) = (TzDiff > 300)
           /\ findings.anomaly_score
                  = Min2(ONE, SumSeq([i \in DOMAIN findings.anomalies |->
                                         TemporalIncrement(findings.anomalies[i][1])]))

\* the score the claim gives node a in a pass over the snapshot scores
SnapshotScore(scores, a) ==
    LET inbound == SetToSeq(InboundKeys(trust_graph, a))
        total == SumSeq([i \in DOMAIN inbound |->
                     scores[inbound[i][1]]
                     * calculate_relationship_strength(trust_graph, inbound[i][1], a, now)])
    IN  IF trust_graph.nodes[a].is_internal THEN ONE
        ELSE IF inbound = << >> THEN ONE \div 10
        ELSE ((100 - DampingPct) * (ONE \div 10)) \div 100
             + (DampingPct * ((total \div Len(inbound)) \div ONE)) \div 100

\* a pass that visits the nodes in the given order and reads the snapshot only
RECURSIVE OrderedPass(_, _, _)
OrderedPass(scores, order, i) ==
    IF i = 0 THEN << >>
    ELSE OrderedPass(scores, order, i - 1) @@ (order[i] :> SnapshotScore(scores, order[i]))

\* two orders in which the nodes may be visited
VisitingOrders ==
    { SetToSeq(DOMAIN trust_graph.nodes), Reverse(SetToSeq(DOMAIN trust_graph.nodes)) }

ScoresOf(tg) == [a \in DOMAIN tg.nodes |-> tg.nodes[a].trust_score]

\* from pass k on, each pass of propagate_trust gives the scores of a snapshot
\* pass in either visiting order, and the last pass gives the stored scores
RECURSIVE PassesAgree(_, _)
PassesAgree(tg, k) ==
    IF k = Iterations THEN ScoresOf(tg) = ScoresOf(trust_graph)
    ELSE \A next \in { propagate_step(tg, now) } :
            /\ \A order \in VisitingOrders :
                   ScoresOf(next) = OrderedPass(ScoresOf(tg), order, Len(order))
            /\ \A a \in DOMAIN next.nodes :
                   /\ next.nodes[a].is_internal => next.nodes[a].trust_score = ONE
                   /\ (~next.nodes[a].is_internal /\ InboundKeys(next, a) = {})
                          => next.nodes[a].trust_score = ONE \div 10
            /\ PassesAgree(next, k + 1)

\* C19: in every pass of the propagate_trust call that has just run, each
\* non-internal node's new score is (1 - damping) * 0.1 + damping * (sum over
\* its inbound edges of the neighbour's score before the pass * strength) /
\* inbound count, whatever the order the nodes are visited in; internal nodes
\* keep 1.0 and non-internal nodes without an inbound edge get 0.1
C19_PassesReadTheSnapshot ==
    last_call = "finalize_training"
        => PassesAgree(propagate_upto(trust_graph, now, 0), 0)

\* C19 witness: propagate_trust has run on a graph where a non-internal node has
\* an inbound edge from a node whose score the first pass changes
C19_NeighbourScoreChanges ==
    /\ last_call = "finalize_training"
    /\ \E a \in DOMAIN trust_graph.nodes :
          /\ ~trust_graph.nodes[a].is_internal
          /\ \E key \in InboundKeys(trust_graph, a) :
                 propagate_upto(trust_graph, now, 1).nodes[key[1]].trust_score
                     # propagate_upto(trust_graph, now, 0).nodes[key[1]].trust_score

\* the payment-heuristic risk the claim states for an email
StatedPaymentRisk(email) ==
    LET urgency == TextData(email.subject).urgency_keywords
                   \cup TextData(email.body).urgency_keywords
        secrecy == TextData(email.subject).secrecy_keywords
                   \cup TextData(email.body).secrecy_keywords
    IN  IF ~email.has_payment_request THEN 0
        ELSE 2000
             + (IF email.amount_requested > 50000 THEN 3000
                ELSE IF email.amount_requested > 10000 THEN 1000 ELSE 0)
             + (IF Cardinality(urgency) >= 2 THEN 2000 ELSE 0)
             + (IF secrecy # {} THEN 2000 ELSE 0)

\* the tags the claim states for an email
StatedPaymentTags(email) ==
    IF ~email.has_payment_request THEN {}
    ELSE (IF email.amount_requested > 50000 THEN { "HIGH_VALUE" } ELSE {})
         \cup (IF Cardinality(TextData(email.subject).urgency_keywords
                              \cup TextData(email.body).urgency_keywords) >= 2
               THEN { "URGENCY_PRESSURE" } ELSE {})
         \cup (IF TextData(email.subject).secrecy_keywords
                  \cup TextData(email.body).secrecy_keywords # {}
               THEN { "SECRECY_REQUEST" } ELSE {})

PaymentTagNames == { "HIGH_VALUE", "URGENCY_PRESSURE", "SECRECY_REQUEST" }

\* emails around the two amount thresholds, with no, one, two and four urgency
\* keywords, with and without a secrecy phrase, asking for a payment or not
PaymentGrid ==
    { [ Incoming("cfo@cyrenlty.com", body, At(29, 11, 0), -300, amount)
          EXCEPT !.subject = subject, !.has_payment_request = requested ] :
        body \in { BodyFormal, BodyUrgent, BodyShort },
        amount \in { 0, 10000, 10001, 50000, 50001, 75000 },
        subject \in { SubjectPlain, SubjectUrgent },
        requested \in BOOLEAN }

\* C20: the payment-heuristic risk is 0 with no HIGH_VALUE, URGENCY_PRESSURE or
\* SECRECY_REQUEST tag when no payment is requested; when one is requested it is
\* 0.2 + (0.3 above 50000, else 0.1 above 10000) + 0.2 for two urgency keywords
\* + 0.2 for a secrecy phrase, one of 0.2, 0.3, 0.4, 0.5, 0.6, 0.7, 0.9, and an
\* amount of exactly 50000 gets 0.1; for every analysed email and on a grid
C20_PaymentHeuristicAsStated ==
    /\ (Analyzed /\ Ready)
          => /\ result.payment_risk = StatedPaymentRisk(analyzed)
             /\ TagNames(result) \cap PaymentTagNames = StatedPaymentTags(analyzed)
    /\ last_call = "__init__"
          => \A email \in PaymentGrid :
                \A p \in { payment_indicators(email) } :
                    /\ p[1] = StatedPaymentRisk(email)
                    /\ { p[2][i][1] : i \in DOMAIN p[2] } = StatedPaymentTags(email)
                    /\ email.has_payment_request
                          => p[1] \in { 2000, 3000, 4000, 5000, 6000, 7000, 9000 }
                    /\ (email.has_payment_request /\ email.amount_requested = 50000)
                          => p[1] = StatedPaymentRisk(
                                        [email EXCEPT !.amount_requested = 10001])

\* C20 witness: an email that names 75000 in urgent and secret words and requests
\* no payment has been analysed, and one that requests exactly 50000
C20_NoRequestNoPaymentRisk ==
    /\ Analyzed /\ Ready
    /\ ~analyzed.has_payment_request
    /\ analyzed.amount_requested > 50000
    /\ TextData(analyzed.body).secrecy_keywords # {}
    /\ result.payment_risk = 0
    /\ TagNames(result) \cap PaymentTagNames = {}
    /\ \E email \in AnalyzeEmails :
          /\ email.has_payment_request /\ email.amount_requested = 50000
          /\ analyze_email(engine, is_trained, email, now).payment_risk = 7000

\* event i of a thread group comes before event j in timestamp order (events of
\* one timestamp in the order they were recorded)
EarlierEvent(events, i, j) ==
    \/ events[i].timestamp < events[j].timestamp
    \/ events[i].timestamp = events[j].timestamp /\ i < j

\* the pairs << i, j >> of consecutive events of a thread group
ConsecutiveEvents(events) ==
    { pair \in (DOMAIN events) \X (DOMAIN events) :
        /\ EarlierEvent(events, pair[1], pair[2])
        /\ \A k \in DOMAIN events :
               ~(EarlierEvent(events, pair[1], k) /\ EarlierEvent(events, k, pair[2])) }

\* the samples the claim derives from the thread groups of ta for the sender key:
\* << thread, later event, minutes >>
DerivedSamples(ta, key) ==
    UNION { { << k, pair[2], ta.email_threads[k].events[pair[2]].timestamp
                             - ta.email_threads[k].events[pair[1]].timestamp >> :
              pair \in { q \in ConsecutiveEvents(ta.email_threads[k].events) :
                           /\ lower(ta.email_threads[k].events[q[2]].sender) = key
                           /\ ta.email_threads[k].events[q[2]].timestamp
                              - ta.email_threads[k].events[q[1]].timestamp > 0
                           /\ ta.email_threads[k].events[q[2]].timestamp
                              - ta.email_threads[k].events[q[1]].timestamp < 10080 } } :
            k \in DOMAIN ta.email_threads }

\* how often the value v is among the response-time samples of key
SampleCount(ta, key, v) ==
    IF key \in DOMAIN ta.profiles
    THEN Cardinality({ i \in DOMAIN ta.profiles[key].response_times :
                          ta.profiles[key].response_times[i] = v })
    ELSE 0

SampleValues(ta, key) ==
    IF key \in DOMAIN ta.profiles
    THEN { ta.profiles[key].response_times[i] : i \in DOMAIN ta.profiles[key].response_times }
    ELSE {}

\* C21: every response-time sample of every profile is above 0 and below 10080
\* minutes, and each finalize adds to each profile exactly the differences of
\* consecutive events (in timestamp order) of a thread group whose later event
\* that profile's address sent; a thread group of fewer than 2 events adds none
C21_SamplesAreConsecutiveThreadDeltas ==
    /\ [](\A key \in DOMAIN temporal_analyzer.profiles :
            \A v \in SampleValues(temporal_analyzer, key) : v > 0 /\ v < 10080)
    /\ [][last_call' = "finalize_training"
            => \A key \in DOMAIN temporal_analyzer'.profiles :
                  \A v \in SampleValues(temporal_analyzer', key)
                           \cup { d[3] : d \in DerivedSamples(temporal_analyzer, key) } :
                      SampleCount(temporal_analyzer', key, v)
                        - SampleCount(temporal_analyzer, key, v)
                          = Cardinality({ d \in DerivedSamples(temporal_analyzer, key) :
                                            d[3] = v })]_vars

\* C21 witness: finalize has run on a thread group recorded out of timestamp
\* order that has a gap of a week or more, and a profile holds a sample
C21_ThreadOutOfOrderFinalized ==
    /\ last_call = "finalize_training"
    /\ \E k \in DOMAIN temporal_analyzer.email_threads :
          \E key \in DOMAIN temporal_analyzer.profiles :
              /\ DerivedSamples(temporal_analyzer, key) # {}
              /\ temporal_analyzer.profiles[key].response_times # << >>
              /\ \E pair \in ConsecutiveEvents(temporal_analyzer.email_threads[k].events) :
                     temporal_analyzer.email_threads[k].events[pair[2]].timestamp
                       - temporal_analyzer.email_threads[k].events[pair[1]].timestamp >= 10080
    /\ \E i \in DOMAIN trained_emails, j \in DOMAIN trained_emails :
          /\ i < j
          /\ trained_emails[i].in_reply_to = trained_emails[j].in_reply_to
          /\ trained_emails[i].in_reply_to # ""
          /\ trained_emails[j].timestamp < trained_emails[i].timestamp

\* the products of finalize_training are those of the records held now: the
\* trust scores are the propagated ones, every temporal profile has the primary
\* time zone and the active hours of its events, and the style profiles are
\* those built from the samples
FinalizedOverAllRecords ==
    /\ \E clock \in Clocks :
          /\ clock <= now
          /\ ScoresOf(trust_graph) = ScoresOf(propagate_trust(trust_graph, clock))
    /\ \A key \in DOMAIN temporal_analyzer.profiles :
          \A p \in { temporal_analyzer.profiles[key] } :
              p.total_emails > 0
                  => /\ p.active_hours = active_hours_of(p)
                     /\ p.primary_timezone = mode(p.observed_timezones)
    /\ stylometry_engine
          = build_profiles(stylometry_engine, SetToSeq(DOMAIN stylometry_engine.sample_texts))

\* C22: the scorer is Ready only if finalize_training has run, and has run over
\* every training record recorded so far
C22_ReadyOnlyAfterFinalizeOfAllRecords ==
    Ready => (n_finalize > 0 /\ FinalizedOverAllRecords)

\* the number of interactions stored on the edges whose key satisfies the test
StoredLeaving(a) ==
    SumSeq([i \in DOMAIN SetToSeq({ k \in DOMAIN trust_graph.edges : k[1] = a }) |->
               Len(trust_graph.edges[SetToSeq({ k \in DOMAIN trust_graph.edges : k[1] = a })[i]])])

StoredEntering(a) ==
    SumSeq([i \in DOMAIN SetToSeq({ k \in DOMAIN trust_graph.edges : k[2] = a }) |->
               Len(trust_graph.edges[SetToSeq({ k \in DOMAIN trust_graph.edges : k[2] = a })[i]])])

\* the outgoing and incoming counts of every node are the numbers of stored
\* interactions leaving and entering it
DirectionCountsMatchEdges ==
    \A a \in DOMAIN trust_graph.nodes :
        /\ trust_graph.nodes[a].outgoing_count = StoredLeaving(a)
        /\ trust_graph.nodes[a].incoming_count = StoredEntering(a)

\* C23: every node's total interaction count is the sum of its incoming and
\* outgoing counts, and the two are the numbers of interactions stored on the
\* edges entering and leaving it
C23_TotalIsIncomingPlusOutgoing ==
    /\ DirectionCountsMatchEdges
    /\ \A a \in DOMAIN trust_graph.nodes :
          trust_graph.nodes[a].interaction_count
              = trust_graph.nodes[a].incoming_count + trust_graph.nodes[a].outgoing_count

\* the timestamps of the interactions the node a took part in
SeenAt(a) ==
    UNION { { trust_graph.edges[k][i].timestamp : i \in DOMAIN trust_graph.edges[k] } :
            k \in { k \in DOMAIN trust_graph.edges : k[1] = a \/ k[2] = a } }

\* C24: every node that took part in an interaction has first_seen <= last_seen,
\* first_seen the earliest and last_seen the latest timestamp of its
\* interactions, in whatever order the records arrived
C24_FirstAndLastSeenAreExtremes ==
    \A a \in DOMAIN trust_graph.nodes :
        SeenAt(a) # {}
            => /\ trust_graph.nodes[a].first_seen <= trust_graph.nodes[a].last_seen
               /\ \A t \in SeenAt(a) :
                      /\ trust_graph.nodes[a].first_seen <= t
                      /\ t <= trust_graph.nodes[a].last_seen

\* the address took part in no training email, as sender or as recipient
NeverSeen(addr) ==
    \A i \in DOMAIN trained_emails :
        /\ lower(trained_emails[i].from_addr) # lower(addr)
        /\ lower(trained_emails[i].to_addr) # lower(addr)

\* what the claim states of a result r for the email of a sender never seen
UnknownSenderVerdict(email, r) ==
    /\ r.temporal_score = ONE \div 2
    /\ r.stylometry_score = ONE \div 2
    /\ ~email.has_payment_request
          => r.overall_risk_score = 4500 * ONE /\ r.risk_level = "MEDIUM"
    /\ email.has_payment_request
          => /\ r.trust_score >= (95 * ONE) \div 100
             /\ r.overall_risk_score >= 6275 * ONE
             /\ r.overall_risk_score <= 7150 * ONE
             /\ r.risk_level \in { "HIGH", "CRITICAL" }
             /\ r.risk_level = "CRITICAL"
                   => /\ email.amount_requested > 50000
                      /\ StatedPaymentTags(email)
                            = { "HIGH_VALUE", "URGENCY_PRESSURE", "SECRECY_REQUEST" }

\* C25: for a sender never seen in training, temporal and stylometry risk are
\* 0.5; without a payment request the overall score is 0.45, MEDIUM; with one the
\* trust risk is at least 0.95, the overall score lies in [0.6275, 0.715], the
\* level is HIGH or CRITICAL, and CRITICAL only above 50000 with the urgency and
\* the secrecy increment; for every analysed email, and on the grid of requests
\* directly after a finalize
C25_UnknownSenderScores ==
    /\ (Analyzed /\ Ready /\ NeverSeen(analyzed.from_addr))
          => UnknownSenderVerdict(analyzed, result)
    /\ (last_call = "finalize_training" /\ n_finalize = 1 /\ n_train = 0)
          => \A email \in PaymentGrid :
                NeverSeen(email.from_addr)
                    => UnknownSenderVerdict(email, analysis_result(engine, email, now))

\* C25 witness: a payment request of a sender never seen has been scored at the
\* upper end, 0.715 and CRITICAL, on a scorer trained on other senders
C25_UnknownSenderCritical ==
    /\ Analyzed /\ Ready /\ NeverSeen(analyzed.from_addr)
    /\ trained_emails # << >>
    /\ analyzed.has_payment_request
    /\ result.overall_risk_score = 7150 * ONE
    /\ result.risk_level = "CRITICAL"

\* C26: after propagate_trust every node has a trust score of at least 0.1, the
\* score of a node without inbound edges
C26_PropagatedTrustAtLeastFloor ==
    last_call = "finalize_training"
        => \A a \in DOMAIN trust_graph.nodes :
              trust_graph.nodes[a].trust_score >= ONE \div 10

\* the number of interactions recorded between a and b, in both directions
InteractionsBetween(a, b) ==
    Len(edges_get(trust_graph, << lower(a), lower(b) >>))
    + Len(edges_get(trust_graph, << lower(b), lower(a) >>))

\* C27: the relationship strength of a pair is below 0.2 exactly when no
\* interaction between the two was recorded in either direction, at every clock;
\* and an analysed email carries the WEAK_RELATIONSHIP tag exactly then
C27_WeakIffNoInteraction ==
    /\ last_call # "analyze_email"
          => \A a \in Addresses, b \in Addresses, clock \in Clocks :
                (calculate_relationship_strength(trust_graph, a, b, clock) < (2 * ONE) \div 10)
                    = (InteractionsBetween(a, b) = 0)
    /\ Analyzed
          => (\E i \in DOMAIN result.trust_findings.risk_factors :
                 result.trust_findings.risk_factors[i][1] = "WEAK_RELATIONSHIP")
             = (InteractionsBetween(analyzed.from_addr, analyzed.to_addr) = 0)

\* C27 witness: an email has been analysed whose sender and recipient have
\* exactly one recorded interaction, an old one: the strength is below 0.3 and
\* the tag is not raised
C27_SingleOldInteractionNotWeak ==
    /\ Analyzed
    /\ InteractionsBetween(analyzed.from_addr, analyzed.to_addr) = 1
    /\ result.trust_findings.relationship_strength < (3 * ONE) \div 10
    /\ "WEAK_RELATIONSHIP" \notin TagNames(result)

\* the texts compared against the stored profiles
StyleTexts == { BodyShort, BodyFormal, BodyUrgent, BodyTable, BodyHedged }

\* the rows of StyleDeviations that compare a numeric feature
NumericRows == 1..6

\* the number of numeric features of ds that exceeded their threshold
Exceedances(ds) == Cardinality({ i \in NumericRows : ds[i][2] # << >> })

\* what the other rows of ds added: function words, urgency, hedging
OtherDeviation(ds) == ds[7][1] + ds[8][1] + ds[9][1]

\* the profile build_profile stores for an author all of whose MinSamples
\* samples are text
ProfileOfOnly(author, text) ==
    StyleProfile(author,
                 [i \in 1..MinSamples |-> extract_features(text)],
                 [i \in 1..MinSamples |-> text])

\* the profile values tried for a feature that is actual in the text: equal,
\* at the threshold, and just above it
Around(actual, threshold) == { actual, actual + threshold, actual + threshold + 1 }

\* profiles that differ from the profile p of a text with features f in the six
\* compared features only
StyleGrid(p, f) ==
    { [p EXCEPT !.avg_word_length = v[1], !.avg_sentence_length = v[2],
                !.comma_rate = v[3], !.exclamation_rate = v[4],
                !.contraction_rate = v[5], !.formality_score = v[6]] :
      v \in Around(f.avg_word_length, MILLI \div 2)
            \X Around(f.avg_sentence_length, 3 * MILLI)
            \X Around(f.comma_rate, MILLI)
            \X Around(f.exclamation_rate, MILLI \div 2)
            \X Around(f.contraction_rate, MILLI)
            \X Around(f.formality_score, MILLI \div 5) }

\* what the claim says of one comparison of text against profile
ExceedancesAsStated(profile, text) ==
    \A r \in { compare_to_profile([stylometry_engine EXCEPT
                                      !.profiles = (profile.author :> profile)],
                                  text, profile.author) } :
        r.deviation_score # None =>
            \A ds \in { StyleDeviations(profile, extract_features(text)) } :
                /\ \A i \in NumericRows :
                       ds[i][1] = IF ds[i][2] # << >> THEN (3 * ONE) \div 10 ELSE 0
                /\ r.deviation_score
                       = Exceedances(ds) * ((3 * ONE) \div 10) + OtherDeviation(ds)
                /\ (Exceedances(ds) = 1 /\ OtherDeviation(ds) = 0)
                       => r.risk_level = "MEDIUM"
                /\ Exceedances(ds) >= 2 => r.risk_level = "HIGH"
                /\ Exceedances(ds) >= 4 => r.similarity = 0

\* C28: every numeric feature that exceeds its threshold adds exactly 0.3 to the
\* deviation; one exceedance alone is labelled MEDIUM, two or more HIGH, and
\* with four or more the similarity is 0: for every stored profile against
\* every text, and for the profiles around the one of a single text
C28_EveryExceedanceAddsThreeTenths ==
    /\ last_call # "analyze_email"
          => \A a \in DOMAIN stylometry_engine.profiles, text \in StyleTexts :
                ExceedancesAsStated(stylometry_engine.profiles[a], text)
    /\ (last_call = "finalize_training" /\ n_finalize = 1 /\ n_train = 0)
          => \A p \in StyleGrid(ProfileOfOnly("vendor1@trustedvendor.com", BodyFormal),
                                extract_features(BodyFormal)) :
                ExceedancesAsStated(p, BodyFormal)
    /\ (Analyzed /\ result.stylometry_findings.deviation_score # None)
          => /\ result.stylometry_findings
                  = compare_to_profile(stylometry_engine, analyzed.body,
                                       analyzed.from_addr)
             /\ ExceedancesAsStated(
                    stylometry_engine.profiles[lower(analyzed.from_addr)],
                    analyzed.body)

\* C28 witness: finalize has run, and among the profiles around the one of a
\* single text some exceed in exactly one feature by one thousandth and nothing
\* else, some in two and some in four; and an email has been analysed whose
\* text exceeds the sender's profile in four features or more
C28_OneTwoAndFourExceedances ==
    /\ n_finalize > 0
    /\ \A n \in {1, 2, 4} :
          \E p \in StyleGrid(ProfileOfOnly("vendor1@trustedvendor.com", BodyFormal),
                             extract_features(BodyFormal)) :
              \A ds \in { StyleDeviations(p, extract_features(BodyFormal)) } :
                  /\ Exceedances(ds) = n
                  /\ OtherDeviation(ds) = 0
    /\ Analyzed
    /\ result.stylometry_findings.deviation_score # None
    /\ Exceedances(StyleDeviations(
           stylometry_engine.profiles[lower(analyzed.from_addr)],
           extract_features(analyzed.body))) >= 4
    /\ result.stylometry_findings.similarity = 0

\* the stored active hours are the ones of the stored counts: what
\* finalize_profiles leaves, until an event is recorded for the sender
ActiveHoursCurrent(profile) == profile.active_hours = active_hours_of(profile)

\* the names of the anomalies of a temporal result
AnomalyNames(r) == { r.anomalies[i][1] : i \in DOMAIN r.anomalies }

\* the unusual-hour and the dead-zone anomaly come together
HourAndDeadZoneTogether(r) ==
    "UNUSUAL_HOUR" \in AnomalyNames(r) => "DEAD_ZONE" \in AnomalyNames(r)

\* an event of the vendor at hour
HourEvent(hour) ==
    [ sender |-> "vendor1@trustedvendor.com", recipient |-> "bbrown@cyrenity.com",
      timestamp |-> At(1, hour, 0), timezone_offset |-> 0,
      message_id |-> "h", response_to |-> "" ]

\* the analyzer after n calls of add_email(event)
RECURSIVE add_emails(_, _, _)
add_emails(ta, event, n) ==
    IF n = 0 THEN ta ELSE add_emails(add_email(ta, event), event, n - 1)

\* the analyzer after n more events at 9:00 (n is kept below 20: the operator
\* recurses once per event)
MoreDayEvents(ta, n) == add_emails(ta, HourEvent(9), n)

\* the numbers of events at 3:00 tried on top of the day events
NightCounts == {0, 1, 2}

\* for an analyzer that recorded day events only: after 0, 1 or 2 events at
\* 3:00 and finalize_profiles, the two anomalies come together at every hour
TogetherAfterFinalize(ta_day) ==
    \A night \in NightCounts :
        \A ta \in { finalize_profiles(add_emails(ta_day, HourEvent(3), night)) } :
            \A hour \in {3, 9, 15} :
                HourAndDeadZoneTogether(temporal_analyze_email(ta, HourEvent(hour)))

\* C29: after finalize_profiles every profile's active hours are current; and
\* while they are, an analysis with a baseline never names the unusual hour
\* without the dead zone: for every analysed email, for every stored profile at
\* every hour, and for profiles of 19, 49 and 50 day events with up to two
\* night events (night shares of 1/20, 1/50, 1/51, 2/51 and 2/52 among them)
C29_UnusualHourImpliesDeadZone ==
    /\ last_call = "finalize_training"
          => \A a \in DOMAIN temporal_analyzer.profiles :
                temporal_analyzer.profiles[a].total_emails > 0
                    => ActiveHoursCurrent(temporal_analyzer.profiles[a])
    /\ (/\ Analyzed
        /\ result.temporal_findings.has_baseline
        /\ ActiveHoursCurrent(temporal_analyzer.profiles[lower(analyzed.from_addr)]))
          => HourAndDeadZoneTogether(result.temporal_findings)
    /\ last_call # "analyze_email"
          => \A a \in DOMAIN temporal_analyzer.profiles, hour \in 0..23 :
                ActiveHoursCurrent(temporal_analyzer.profiles[a])
                    => HourAndDeadZoneTogether(
                           temporal_analyze_email(temporal_analyzer,
                               [HourEvent(hour) EXCEPT !.sender = a]))
    /\ (last_call = "finalize_training" /\ n_finalize = 1 /\ n_train = 0)
          => \A d19 \in { MoreDayEvents(TemporalAnalyzerInit, 19) } :
                /\ TogetherAfterFinalize(d19)
                /\ \A d34 \in { MoreDayEvents(d19, 15) } :
                      \A d49 \in { MoreDayEvents(d34, 15) } :
                          /\ TogetherAfterFinalize(d49)
                          /\ \A d50 \in { MoreDayEvents(d49, 1) } :
                                TogetherAfterFinalize(d50)

\* C29 witness: an email of a sender with a baseline and current active hours
\* has been analysed at an unusual hour, with both anomalies; and a profile
\* finalized at 19 day events and one night event, then given 31 more day
\* events, names the unusual hour alone at night
C29_TogetherAndBrokenByLaterEvents ==
    /\ Analyzed
    /\ n_finalize > 0
    /\ result.temporal_findings.has_baseline
    /\ ActiveHoursCurrent(temporal_analyzer.profiles[lower(analyzed.from_addr)])
    /\ {"UNUSUAL_HOUR", "DEAD_ZONE"} \subseteq AnomalyNames(result.temporal_findings)
    /\ \A f20 \in { finalize_profiles(
                        add_emails(MoreDayEvents(TemporalAnalyzerInit, 19),
                                   HourEvent(3), 1)) } :
          \A l36 \in { MoreDayEvents(f20, 16) } :
              \A l51 \in { MoreDayEvents(l36, 15) } :
                  \A r \in { temporal_analyze_email(l51, HourEvent(3)) } :
                      /\ "UNUSUAL_HOUR" \in AnomalyNames(r)
                      /\ "DEAD_ZONE" \notin AnomalyNames(r)

\* the sum of the counts of a distribution
BucketSum(d) ==
    SumSeq([i \in DOMAIN SetToSeq(DOMAIN d) |-> d[SetToSeq(DOMAIN d)[i]]])

\* the number of events recorded with sender key, whatever the case of the
\* address: train_on_email records one event per call
EventsOf(key) ==
    Cardinality({ i \in DOMAIN trained_emails :
                    lower(trained_emails[i].from_addr) = key })

\* the hour buckets, the day buckets, the timezone list and the total of the
\* profile each count the events of its sender
ProfileCountsEvents(key) ==
    LET profile == temporal_analyzer.profiles[key]
    IN  /\ DOMAIN profile.hourly_distribution \subseteq 0..23
        /\ DOMAIN profile.daily_distribution \subseteq 0..6
        /\ BucketSum(profile.hourly_distribution) = EventsOf(key)
        /\ BucketSum(profile.daily_distribution) = EventsOf(key)
        /\ Len(profile.observed_timezones) = EventsOf(key)
        /\ profile.total_emails = EventsOf(key)

\* the step leaves the profiles there are, and their four counts, as they were
CountsUnchanged ==
    /\ DOMAIN temporal_analyzer'.profiles = DOMAIN temporal_analyzer.profiles
    /\ \A key \in DOMAIN temporal_analyzer.profiles :
          /\ temporal_analyzer'.profiles[key].hourly_distribution
                 = temporal_analyzer.profiles[key].hourly_distribution
          /\ temporal_analyzer'.profiles[key].daily_distribution
                 = temporal_analyzer.profiles[key].daily_distribution
          /\ temporal_analyzer'.profiles[key].observed_timezones
                 = temporal_analyzer.profiles[key].observed_timezones
          /\ temporal_analyzer'.profiles[key].total_emails
                 = temporal_analyzer.profiles[key].total_emails

\* C30: in every state every profile's hour buckets, day buckets, timezone list
\* and total count the events recorded with its sender, addresses compared in
\* lower case, and every sender of an event has a profile; a finalize_training
\* or analyze_email step changes none of them
C30_ProfileCountsAreEventCounts ==
    /\ [](/\ \A key \in DOMAIN temporal_analyzer.profiles : ProfileCountsEvents(key)
          /\ \A i \in DOMAIN trained_emails :
                lower(trained_emails[i].from_addr) \in DOMAIN temporal_analyzer.profiles)
    /\ [][last_call' \in {"finalize_training", "analyze_email"} => CountsUnchanged]_vars

\* C30 witness: the vendor was recorded under both spellings of the address,
\* finalize has run and an email has been analysed; the one profile counts the
\* events of both spellings
C30_BothSpellingsCountedInOneProfile ==
    /\ Analyzed
    /\ n_finalize > 0
    /\ \E i \in DOMAIN trained_emails :
          trained_emails[i].from_addr = "Vendor1@TrustedVendor.com"
    /\ \E i \in DOMAIN trained_emails :
          trained_emails[i].from_addr = "vendor1@trustedvendor.com"
    /\ temporal_analyzer.profiles["vendor1@trustedvendor.com"].total_emails
           = EventsOf("vendor1@trustedvendor.com")
    /\ "Vendor1@TrustedVendor.com" \notin DOMAIN temporal_analyzer.profiles

=============================================================================
